---- MODULE Spec2Model ----
(***************************************************************************)
(* A model of the resolution pipeline of do-something (`ds`): scored,      *)
(* alias-aware matching of a token vector against the group trees of the   *)
(* discovered ds.json files, conflict handling between files, default      *)
(* command resolution and environment merging.                             *)
(*                                                                         *)
(* Rust values are encoded as follows.                                     *)
(*   Option<T>       a sequence of length 0 (None) or 1 (Some(x))          *)
(*   Vec<T>          a sequence                                            *)
(*   BTreeMap<K,V>   a function; iteration follows KeyOrder                *)
(*   &Command/&Group the key path of the node inside its document, the     *)
(*                   empty path being the document's top-level group       *)
(*   PathBuf         the sequence of the path's components                 *)
(***************************************************************************)
EXTENDS Integers, Sequences, FiniteSets, TLC

VARIABLES
    pc,               \* position of the running operation
    self_config,      \* DoSomething.config: on_conflict and ds_files
    disk,             \* the file system: what each ds.json location holds
    self_current_dir, \* DoSomething.current_dir
    self_git_root,    \* DoSomething.git_root
    self_paths,       \* DoSomething.paths, the discovered files in order
    args_str,         \* the tokens of the command line
    self_ds_files,    \* DoSomething.ds_files.files, the loaded files by path
    mc_matches,       \* match_command: the matches collected so far
    mc_i,             \* match_command: the index of the next path
    mc_last,          \* match_command: the last file consulted and its matches
    mc_res,           \* what match_command returned, None while it runs
    cm_res,           \* what command_from_match returned
    fc_args,          \* arguments handed to Match::from_command
    fc_res,           \* the Option<Match> it returned
    env_args,         \* the node and ancestors handed to resolve_envs
    env_res,          \* what resolve_envs returned
    me_args,          \* the envs, default and args handed to match_env
    me_res,           \* what match_env returned
    sc_args,          \* the node and directories handed to is_in_scope
    sc_res,           \* what is_in_scope returned
    wk_args,          \* the document and the verdicts of a scripted visitor
    wk_res,           \* what walk_tree returned and the calls it made
    al_args,          \* a file, a target and where the program runs
    al_res,           \* the matches for the target, a replaced token and the matches then
    rm_args,          \* a file and the command line of run_match
    rm_res,           \* the match, the command and the runner of run_match
    rr_args,          \* a file and a key path
    rr_res,           \* the command of the key path and its root path
    tw_first,         \* the outcome of the first of two resolutions
    tw_cache,         \* the loaded files when the second resolution began
    iv_children,      \* the children spawned by the invocation, in order
    iv_run,           \* the runner in hand, the status waited for and how the invocation ended
    tui_app,          \* the App of the picker: rows, search text, matches and selection
    tui_res           \* what App::run returned

vars == <<pc, self_config, disk, self_current_dir, self_git_root, self_paths, args_str, self_ds_files,
          mc_matches, mc_i, mc_last, mc_res, cm_res, fc_args, fc_res,
          env_args, env_res, me_args, me_res,
          sc_args, sc_res,
          wk_args, wk_res,
          al_args, al_res,
          rm_args, rm_res,
          rr_args, rr_res,
          tw_first, tw_cache,
          iv_children, iv_run,
          tui_app, tui_res>>

-----------------------------------------------------------------------------
(* Option<T> *)

None == <<>>

Some(x) == <<x>>

is_some(o) == Len(o) = 1

is_none(o) == Len(o) = 0

unwrap(o) == o[1]

(* Vec<T>::contains *)
contains(v, x) == \E i \in 1..Len(v) : v[i] = x

(* Vec<T>::last on a non-empty vector, Vec<T>::pop *)
last(v) == v[Len(v)]

pop(v) == SubSeq(v, 1, Len(v) - 1)

Min(a, b) == IF a <= b THEN a ELSE b

-----------------------------------------------------------------------------
(* Bounds of the explored inputs *)

\* levels of a node handed to the matcher
MaxLevels == 3

\* tokens of a target handed to the matcher
MaxTarget == 3

\* files that exist among the places ds looks at
MaxFiles == 2

\* tokens on the command line
MaxArgs == 2

\* ancestors handed to resolve_envs
MaxParents == 2

\* tokens the matcher is exercised with
Tokens == {"app", "a", "build"}

SeqsUpTo(S, n) == UNION {[1..k -> S] : k \in 0..n}

\* a level of accepted names: the key followed by its aliases
LevelNames ==
    {<<"app">>, <<"app", "a">>, <<"a">>, <<"build">>, <<"build", "a">>, <<"build", "app", "a">>}

-----------------------------------------------------------------------------
(* Match::from_command, src/src/ds_file.rs *)

\* the scoring loop: `for (i, key) in target.iter().enumerate()`, 1-based here
RECURSIVE score_loop(_, _, _, _)
score_loop(alias_keys, target, i, score) ==
    IF i > Len(target) THEN score
    ELSE IF i <= Len(alias_keys) /\ contains(alias_keys[i], target[i])
         THEN score_loop(alias_keys, target, i + 1, score + 1)
         ELSE score

\* a plausible slip: the nested check is dropped, so a partial match is returned
from_command_partial(file_path, keys, alias_keys, target) ==
    LET score == score_loop(alias_keys, target, 1, 0)
    IN  IF score = 0 THEN None
        ELSE Some([file_path |-> file_path, score |-> score, keys |-> keys])

from_command(file_path, keys, alias_keys, target) ==
    LET score == score_loop(alias_keys, target, 1, 0)
        is_nested == score < Len(alias_keys)
    IN  IF is_nested \/ score = 0 THEN None
        ELSE Some([file_path |-> file_path, score |-> score, keys |-> keys])

-----------------------------------------------------------------------------
(* Result<T> *)

Ok(x) == [ok |-> TRUE, val |-> x]

Err(e) == [ok |-> FALSE, err |-> e]

-----------------------------------------------------------------------------
(* The data model of a ds.json document: Command (command.rs), Group       *)
(* (group.rs), RootConfig (command.rs) and Env (env.rs).  Every node is a  *)
(* record with the same fields; a field a variant does not have is None.   *)
(* The help-only fields name and description are left out.                 *)

RootConfig(path, scope) == [path |-> path, scope |-> scope]

Dotenv(path) == [kind |-> "Dotenv", path |-> path, vars |-> <<>>]

EnvVars(values) == [kind |-> "Vars", path |-> <<>>, vars |-> values]

\* Env::Command: a command in front of the command to run, and optional vars
EnvCommand(command, values) ==
    [kind |-> "Command", path |-> <<>>, vars |-> values, command |-> command]

\* Command::Inline: a plain string
Inline(command) ==
    [kind |-> "Inline", command |-> command, default |-> None, commands |-> <<>>,
     envs |-> None, default_env |-> None, root |-> None, mode |-> None,
     aliases |-> None]

\* Command::Config: an object with a `command` field
Config(command, envs, default_env, root, aliases) ==
    [kind |-> "Config", command |-> command, default |-> None, commands |-> <<>>,
     envs |-> envs, default_env |-> default_env, root |-> root, mode |-> None,
     aliases |-> aliases]

\* Command::Group as written in the document: `default` is an optional key
GroupJson(default, commands, envs, default_env, root, mode, aliases) ==
    [kind |-> "Group", command |-> "", default |-> default, commands |-> commands,
     envs |-> envs, default_env |-> default_env, root |-> root, mode |-> mode,
     aliases |-> aliases]

\* fn default_command(): the value serde gives Group::default when the key is absent
default_command == "default"

\* serde deserialization of a Group: every group of the tree gets a `default`
\* string, the document's own or default_command()
RECURSIVE deserialize(_)
deserialize(json) ==
    IF json.kind = "Group"
    THEN [json EXCEPT
            !.default = IF is_some(json.default) THEN unwrap(json.default)
                        ELSE default_command,
            !.commands = [k \in DOMAIN json.commands |-> deserialize(json.commands[k])]]
    ELSE json

\* the iteration order of BTreeMap<String, _>: the keys in byte order
KeyOrder ==
    <<"a", "app", "build", "default", "dev", "g1", "g2", "leaf", "prod", "with-env", "x", "y">>

iter_keys(map) == SelectSeq(KeyOrder, LAMBDA k : k \in DOMAIN map)

\* the node a reference (a key path from the document's top-level group) denotes
RECURSIVE node_at(_, _)
node_at(group, path) ==
    IF path = <<>> THEN group
    ELSE node_at(group.commands[Head(path)], Tail(path))

\* the nodes a list of references denotes
deref(group, refs) == [i \in 1..Len(refs) |-> node_at(group, refs[i])]

-----------------------------------------------------------------------------
(* Paths, src/src/dir.rs.  A path is the sequence of its components, "/"   *)
(* first when absolute and "~" first when home-relative; the empty         *)
(* sequence is the empty string.  Documents hold no relative root paths.   *)

HomeDir == <<"/", "home", "u">>

\* Path::starts_with: component-wise prefix
starts_with(p, q) == Len(q) <= Len(p) /\ SubSeq(p, 1, Len(q)) = q

\* resolve_path: tilde expansion, then std::path::absolute, which fails on
\* an empty path
resolve_path(input) ==
    IF input = <<>> THEN Err("cannot make an empty path absolute")
    ELSE IF Head(input) = "~" THEN Ok(HomeDir \o Tail(input))
    ELSE Ok(input)

-----------------------------------------------------------------------------
(* Command, src/src/command.rs *)

\* `parents.iter().rev().find_map(|g| g.root.as_ref())`, from parent i down
RECURSIVE find_root(_, _)
find_root(parents, i) ==
    IF i < 1 THEN None
    ELSE IF is_some(parents[i].root) THEN parents[i].root
    ELSE find_root(parents, i - 1)

\* Command::resolve_root after the root was looked up
root_resolved(found) ==
    IF is_some(found)
    THEN IF resolve_path(unwrap(found).path).ok
         THEN Ok(Some(resolve_path(unwrap(found).path).val))
         ELSE resolve_path(unwrap(found).path)
    ELSE Ok(None)

\* Command::resolve_root: the path of the command's root or of a parent's
resolve_root(cmd, parents) ==
    root_resolved(IF cmd.kind \in {"Config", "Group"} /\ is_some(cmd.root) THEN cmd.root
                  ELSE find_root(parents, Len(parents)))

\* Command::own_root: the node's own root and its resolved path
own_root(cmd) ==
    LET item_root == IF cmd.kind \in {"Config", "Group"} THEN cmd.root ELSE None
    IN  IF is_some(item_root)
        THEN LET path == resolve_path(unwrap(item_root).path)
             IN  IF path.ok THEN Ok(<<item_root, Some(path.val)>>)
                 ELSE Err(path.err)
        ELSE Ok(<<None, None>>)

\* a plausible slip: GitRoot compares the current directory with the target
\* path and never looks at the repository root that was discovered
is_in_scope_no_discovery(cmd, current_dir, git_root) ==
    LET root == own_root(cmd)
    IN  IF ~root.ok THEN Err(root.err)
        ELSE IF is_some(root.val[1]) /\ is_some(root.val[2])
        THEN LET root_config == unwrap(root.val[1])
                 target_path == unwrap(root.val[2])
             IN  CASE root_config.scope = "Exact" -> Ok(current_dir = target_path)
                   [] root_config.scope = "GitRoot" ->
                        Ok(starts_with(current_dir, target_path))
                   [] OTHER -> Ok(TRUE)
        ELSE Ok(TRUE)

\* Command::is_in_scope
is_in_scope(cmd, current_dir, git_root) ==
    LET root == own_root(cmd)
    IN  IF ~root.ok THEN Err(root.err)
        ELSE IF is_some(root.val[1]) /\ is_some(root.val[2])
        THEN LET root_config == unwrap(root.val[1])
                 target_path == unwrap(root.val[2])
             IN  CASE root_config.scope = "Exact" -> Ok(current_dir = target_path)
                   [] root_config.scope = "GitRoot" ->
                        IF is_some(git_root)
                        THEN Ok(/\ starts_with(current_dir, unwrap(git_root))
                                /\ unwrap(git_root) = target_path)
                        ELSE Ok(FALSE)
                   [] OTHER -> Ok(TRUE)
        ELSE Ok(TRUE)

\* the accepted names of one level: the key, then the aliases if any
\* a plausible slip: the aliases are not added to the level
level_keys_no_aliases(key, aliases) == <<key>>

level_keys(key, aliases) ==
    IF is_some(aliases) THEN <<key>> \o unwrap(aliases) ELSE <<key>>

\* a plausible slip: a flattened group adds a level like any other group
RECURSIVE parent_keys_flattened_kept(_, _, _)
parent_keys_flattened_kept(keys, parents, i) ==
    IF i > Len(parents) THEN <<>>
    ELSE IF i = 1 THEN parent_keys_flattened_kept(keys, parents, i + 1)
    ELSE <<level_keys(keys[i - 1], parents[i].aliases)>>
             \o parent_keys_flattened_kept(keys, parents, i + 1)

\* a plausible slip: only a group that has aliases adds a level
RECURSIVE parent_keys_aliased_only(_, _, _)
parent_keys_aliased_only(keys, parents, i) ==
    IF i > Len(parents) THEN <<>>
    ELSE IF i = 1 THEN parent_keys_aliased_only(keys, parents, i + 1)
    ELSE LET group == parents[i]
             key == keys[i - 1]
         IN  IF group.mode = Some("Flattened") \/ ~is_some(group.aliases)
             THEN parent_keys_aliased_only(keys, parents, i + 1)
             ELSE <<level_keys(key, group.aliases)>>
                      \o parent_keys_aliased_only(keys, parents, i + 1)

\* the parent loop of Command::resolve_aliases, from parent i on (1-based):
\* the top-level group is passed over, a flattened group adds no level
RECURSIVE parent_keys_from(_, _, _)
parent_keys_from(keys, parents, i) ==
    IF i > Len(parents) THEN <<>>
    ELSE IF i = 1 THEN parent_keys_from(keys, parents, i + 1)
    ELSE LET group == parents[i]
             key == keys[i - 1]
         IN  IF group.mode = Some("Flattened")
             THEN parent_keys_from(keys, parents, i + 1)
             ELSE <<level_keys(key, group.aliases)>>
                      \o parent_keys_from(keys, parents, i + 1)

\* Command::resolve_aliases: one vector of accepted names per level
resolve_aliases(cmd, keys, parents) ==
    LET last_key == IF Len(keys) > 0 THEN last(keys) ELSE ""
        command_keys ==
            IF cmd.kind = "Inline" THEN <<last_key>>
            ELSE level_keys(last_key, cmd.aliases)
    IN  Append(parent_keys_from(keys, parents, 1), command_keys)

\* a plausible slip: `insert` instead of `entry(key).or_insert`, so that the
\* definition inserted last replaces the earlier one
RECURSIVE parent_envs_last_wins(_, _, _)
parent_envs_last_wins(parents, i, acc) ==
    IF i < 1 THEN acc
    ELSE LET parent == parents[i]
             default_env == IF is_some(parent.default_env) THEN parent.default_env
                            ELSE acc.default_env
             merged ==
                 IF is_some(parent.envs)
                 THEN LET envs == unwrap(parent.envs)
                      IN  [k \in DOMAIN acc.merged \cup DOMAIN envs |->
                              IF k \in DOMAIN envs THEN envs[k] ELSE acc.merged[k]]
                 ELSE acc.merged
         IN  parent_envs_last_wins(parents, i - 1,
                                   [merged |-> merged, default_env |-> default_env])

\* the ancestor loop of Command::resolve_envs, nearest ancestor first
\* (parents.iter().rev()), from parent i down to the first: every ancestor
\* that has a default_env assigns it, every name is inserted only if absent
RECURSIVE parent_envs_from(_, _, _)
parent_envs_from(parents, i, acc) ==
    IF i < 1 THEN acc
    ELSE LET parent == parents[i]
             default_env == IF is_some(parent.default_env) THEN parent.default_env
                            ELSE acc.default_env
             merged ==
                 IF is_some(parent.envs)
                 THEN LET envs == unwrap(parent.envs)
                      IN  [k \in DOMAIN acc.merged \cup DOMAIN envs |->
                              IF k \in DOMAIN acc.merged THEN acc.merged[k] ELSE envs[k]]
                 ELSE acc.merged
         IN  parent_envs_from(parents, i - 1,
                              [merged |-> merged, default_env |-> default_env])

\* Command::resolve_envs: the merged environments and the default environment
resolve_envs(cmd, parents) ==
    LET from_parents ==
            parent_envs_from(parents, Len(parents), [merged |-> <<>>, default_env |-> None])
        own_envs == IF cmd.kind \in {"Config", "Group"} THEN cmd.envs ELSE None
        own_default == IF cmd.kind \in {"Config", "Group"} THEN cmd.default_env ELSE None
        merged ==
            IF is_some(own_envs)
            THEN LET envs == unwrap(own_envs)
                 IN  [k \in DOMAIN from_parents.merged \cup DOMAIN envs |->
                         IF k \in DOMAIN from_parents.merged THEN from_parents.merged[k]
                         ELSE envs[k]]
            ELSE from_parents.merged
    IN  [merged |-> merged,
         default_env |-> IF is_some(own_default) THEN own_default
                         ELSE from_parents.default_env]

-----------------------------------------------------------------------------
(* Environment selection, src/src/env.rs *)

\* a plausible slip: the default is looked at before the first argument
match_env_default_first(envs, default_env, args) ==
    IF DOMAIN envs = {} THEN Ok(None)
    ELSE IF args = <<>> /\ is_none(default_env)
    THEN Err(<<"No environment specified, and no default environment is set">>)
    ELSE IF is_some(default_env) /\ unwrap(default_env) \in DOMAIN envs
    THEN Ok(Some(<<envs[unwrap(default_env)], args>>))
    ELSE IF args # <<>> /\ Head(args) \in DOMAIN envs
    THEN Ok(Some(<<envs[Head(args)], Tail(args)>>))
    ELSE Err(<<"Environment not found, and no default environment is set">>)

\* match_env: Ok(None), Ok(Some((env, remaining args))) or an error
match_env(envs, default_env, args) ==
    IF DOMAIN envs = {} THEN Ok(None)
    ELSE IF args = <<>> /\ DOMAIN envs # {} /\ is_none(default_env)
    THEN Err(<<"No environment specified, and no default environment is set">>)
    ELSE IF args # <<>> /\ Head(args) \in DOMAIN envs
    THEN Ok(Some(<<envs[Head(args)], Tail(args)>>))
    ELSE IF is_some(default_env)
    THEN IF unwrap(default_env) \in DOMAIN envs
         THEN Ok(Some(<<envs[unwrap(default_env)], args>>))
         ELSE Err(<<"Environment not found, and default environment is not found",
                    unwrap(default_env)>>)
    ELSE Err(<<"Environment not found, and no default environment is set">>)

-----------------------------------------------------------------------------
(* The documents the files of the explored file systems hold.              *)

\* DocFull follows tests/fixtures/full.json as the tests of do_something.rs
\* use it: group app (alias a) holds the flattened group with-env
DocFull ==
    GroupJson(None,
        [k \in {"app", "build"} |->
            IF k = "build" THEN Inline("echo full-build")
            ELSE GroupJson(None,
                    [w \in {"with-env"} |->
                        GroupJson(None,
                            [c \in {"build", "dev"} |->
                                IF c = "build"
                                THEN Config("echo app-build", None, None, None, Some(<<"b">>))
                                ELSE Inline("echo app-dev")],
                            Some([e \in {"dev", "prod"} |->
                                    IF e = "dev" THEN Dotenv(<<".env.dev">>)
                                    ELSE EnvCommand("COMMAND_VAR=production",
                                            Some([v \in {"ENVIRONMENT"} |-> "production"]))]),
                            Some("dev"), None, Some("Flattened"), None)],
                    None, None, Some(RootConfig(<<"~", "proj">>, "Global")), None,
                    Some(<<"a">>))],
        None, None, None, None, None)

\* DocDefaults: a chain of defaults g1 -> g2 -> leaf, a group without a
\* `default` key that holds a command named default, and two siblings that
\* both accept the token a
DocDefaults ==
    GroupJson(None,
        [k \in {"a", "app", "build", "g1"} |->
            CASE k = "a" -> Inline("echo a")
              [] k = "app" ->
                    GroupJson(None,
                        [c \in {"build", "default"} |->
                            IF c = "build" THEN Inline("echo app-build")
                            ELSE Inline("echo app-default")],
                        None, None, None, None, None)
              [] k = "build" -> Config("echo defaults-build", None, None, None, Some(<<"a">>))
              [] OTHER ->
                    GroupJson(Some("g2"),
                        [c \in {"g2"} |->
                            GroupJson(Some("leaf"),
                                [l \in {"leaf"} |-> Inline("echo leaf")],
                                None, None, None, None, None)],
                        None, None, None, None, None)],
        None, None, None, None, None)

\* DocScoped: defaults that name no entry (directly, and at the end of a
\* chain), a group anchored to the repository /repo, and below a group
\* visible in /repo only a command whose root path cannot be resolved
DocScoped ==
    GroupJson(None,
        [k \in {"a", "app", "build", "g1"} |->
            CASE k = "a" ->
                    GroupJson(None,
                        [c \in {"build"} |->
                            Config("echo never", None, None,
                                   Some(RootConfig(<<>>, "Global")), None)],
                        None, None, Some(RootConfig(<<"/", "repo">>, "Exact")), None, None)
              [] k = "app" ->
                    GroupJson(Some("nope"),
                        [c \in {"build"} |-> Inline("echo repo-build")],
                        None, None, Some(RootConfig(<<"/", "repo">>, "GitRoot")), None, None)
              [] k = "build" -> Inline("echo scoped-build")
              [] OTHER ->
                    GroupJson(Some("g2"),
                        [c \in {"g2"} |->
                            GroupJson(Some("missing"),
                                [l \in {"build"} |-> Inline("echo g2-build")],
                                None, None, None, None, None)],
                        None, None, None, None, None)],
        None, None, None, None, None)

\* DocAliased: the alias a of the command app is also the key of a group
DocAliased ==
    GroupJson(None,
        [k \in {"a", "app"} |->
            IF k = "a"
            THEN GroupJson(None, [c \in {"dev"} |-> Inline("echo a-dev")],
                           None, None, None, None, None)
            ELSE Config("echo app", None, None, None, Some(<<"a">>))],
        None, None, None, None, None)

\* DocScenario: group app (alias a) holds the namespaced group with-env, whose
\* environments are a dotenv file and a set of variables, with the command build
DocScenario ==
    GroupJson(None,
        [k \in {"app"} |->
            GroupJson(None,
                [w \in {"with-env"} |->
                    GroupJson(None,
                        [c \in {"build"} |-> Inline("echo app-build")],
                        Some([e \in {"dev", "prod"} |->
                                IF e = "dev" THEN Dotenv(<<".env.dev">>)
                                ELSE EnvVars([v \in {"ENVIRONMENT"} |-> "production"])]),
                        None, None, None, None)],
                None, None, None, None, Some(<<"a">>))],
        None, None, None, None, None)

\* DocRoots: roots on the top-level group, on a command and on the groups of
\* a chain of defaults g1 -> g2 -> leaf
DocRoots ==
    GroupJson(None,
        [k \in {"app", "build", "g1"} |->
            CASE k = "app" ->
                    GroupJson(None,
                        [c \in {"build", "dev"} |->
                            IF c = "build"
                            THEN Config("echo app-build", None, None,
                                        Some(RootConfig(<<"~", "proj">>, "Global")), None)
                            ELSE Inline("echo app-dev")],
                        None, None, None, None, None)
              [] k = "build" -> Inline("echo build")
              [] OTHER ->
                    GroupJson(Some("g2"),
                        [c \in {"g2"} |->
                            GroupJson(Some("leaf"),
                                [l \in {"leaf"} |-> Inline("echo leaf")],
                                None, None,
                                Some(RootConfig(<<"/", "other">>, "Global")), None, None)],
                        None, None, Some(RootConfig(<<"/", "repo">>, "Global")), None, None)],
        None, None, Some(RootConfig(<<"/", "srv">>, "Exact")), None, None)

DocNames == {"full", "defaults", "scoped"}

\* the documents of DocNames, DocAliased, DocScenario and DocRoots
AllDocNames == DocNames \cup {"aliased", "scenario", "roots"}

\* the text of a document, by name
Json ==
    [n \in AllDocNames |->
        CASE n = "full" -> DocFull
          [] n = "defaults" -> DocDefaults
          [] n = "aliased" -> DocAliased
          [] n = "scenario" -> DocScenario
          [] n = "roots" -> DocRoots
          [] OTHER -> DocScoped]

\* what a file may hold: a document, or text that is not a Group
Contents == DocNames \cup {"malformed"}

-----------------------------------------------------------------------------
(* Group, src/src/group.rs *)

\* the loop of Group::get_default_command; curr is a reference, parents an
\* Option<Vec<&Group>>
RECURSIVE default_loop(_, _, _)
default_loop(root, curr, parents) ==
    LET group == node_at(root, curr)
    IN  IF group.default \in DOMAIN group.commands
        THEN LET cmd == Append(curr, group.default)
             IN  IF node_at(root, cmd).kind \in {"Config", "Inline"}
                 THEN [cmd |-> Some(cmd), parents |-> parents]
                 ELSE default_loop(root, cmd,
                          IF is_some(parents) THEN Some(Append(unwrap(parents), curr))
                          ELSE parents)
        ELSE [cmd |-> None, parents |-> parents]

\* Group::get_default_command: the Option<&Command> and the parents as left
get_default_command(root, self, parents) == default_loop(root, self, parents)

\* a plausible slip: the defaults are followed as far as they go, and a chain
\* that ends at a group gives that group
RECURSIVE resolve_default_deepest(_, _, _)
resolve_default_deepest(root, self, parents) ==
    IF /\ node_at(root, self).kind = "Group"
       /\ node_at(root, self).default \in DOMAIN node_at(root, self).commands
    THEN resolve_default_deepest(root, Append(self, node_at(root, self).default),
                                 IF is_some(parents) THEN Some(Append(unwrap(parents), self))
                                 ELSE parents)
    ELSE [command |-> self, parents |-> parents]

\* Command::resolve_default (command.rs)
resolve_default(root, self, parents) ==
    IF node_at(root, self).kind = "Group"
    THEN LET r == get_default_command(root, self, parents)
         IN  [command |-> IF is_some(r.cmd) THEN unwrap(r.cmd) ELSE self,
              parents |-> r.parents]
    ELSE [command |-> self, parents |-> parents]

-----------------------------------------------------------------------------
(* DsFile, src/src/ds_file.rs.  A DsFile is the name of the parsed         *)
(* document and the path of the file; the parsed tree is Documents[doc].   *)

Documents == [n \in AllDocNames |-> deserialize(Json[n])]

group_of(file) == Documents[file.doc]

\* DsFile::from_json
from_json(json, path) ==
    IF json \in DocNames THEN Ok([doc |-> json, path |-> path])
    ELSE Err("invalid document")

exists(fs, path) == path \in DOMAIN fs /\ fs[path] # "absent"

\* DsFile::from_file
from_file(fs, path) ==
    IF ~exists(fs, path) THEN Err("File not found")
    ELSE from_json(fs[path], path)

\* the key loop of DsFile::command_from_keys, from key i on
\* a plausible slip: every key is looked up in the top-level group
RECURSIVE keys_loop_top_only(_, _, _, _, _)
keys_loop_top_only(root, keys, i, parents, command) ==
    IF i > Len(keys) THEN Ok([command |-> command, parents |-> parents])
    ELSE IF keys[i] \in DOMAIN root.commands
         THEN keys_loop_top_only(root, keys, i + 1,
                                 IF node_at(root, <<keys[i]>>).kind = "Group"
                                 THEN Append(parents, <<keys[i]>>) ELSE parents,
                                 Some(<<keys[i]>>))
         ELSE Err("No command found for keys")

RECURSIVE keys_loop(_, _, _, _, _)
keys_loop(root, keys, i, parents, command) ==
    IF i > Len(keys) THEN Ok([command |-> command, parents |-> parents])
    ELSE LET group == IF Len(parents) > 0 THEN last(parents) ELSE <<>>
             key == keys[i]
         IN  IF key \in DOMAIN node_at(root, group).commands
             THEN LET cmd == Append(group, key)
                  IN  keys_loop(root, keys, i + 1,
                                IF node_at(root, cmd).kind = "Group"
                                THEN Append(parents, cmd) ELSE parents,
                                Some(cmd))
             ELSE Err("No command found for keys")

\* the end of DsFile::command_from_keys: the parents lose their last entry
\* when the resolved command is itself a group
keys_resolved(root, r) ==
    Ok([command |-> r.command,
        parents |-> IF node_at(root, r.command).kind = "Group"
                    THEN pop(unwrap(r.parents)) ELSE unwrap(r.parents)])

\* DsFile::command_from_keys after the key loop: `if let Some(command)`
keys_found(root, found) ==
    IF ~found.ok THEN found
    ELSE IF is_some(found.val.command)
    THEN keys_resolved(root, resolve_default(root, unwrap(found.val.command),
                                             Some(found.val.parents)))
    ELSE Err("No command found for keys")

\* DsFile::command_from_keys: the resolved command and its parents
command_from_keys(file, keys) ==
    keys_found(group_of(file), keys_loop(group_of(file), keys, 1, <<>>, None))

-----------------------------------------------------------------------------
(* The tree walker, Group::walk_tree (group.rs), and the visitor of        *)
(* DsFile::matches (ds_file.rs).  A visitor is a record naming the closure *)
(* and holding what it captures by reference; what it mutates is st.  The  *)
(* field calls of st is a history variable: the arguments of every call of *)
(* on_command, in order.                                                   *)

\* a visitor that answers as a table says, whatever the node is
script_visitor(ctx, keys, cmd, parents, st) == [walk |-> ctx.verdict[cmd], st |-> st]

\* a plausible slip: a node whose scope cannot be determined is skipped
matches_visitor_skips_errors(ctx, keys, cmd, parents, st) ==
    LET root == group_of(ctx.file)
        node == node_at(root, cmd)
        scope == is_in_scope(node, ctx.current_dir, ctx.git_root)
    IN  IF ~scope.ok \/ ~scope.val THEN [walk |-> "Skip", st |-> st]
        ELSE LET command_keys == resolve_aliases(node, keys, deref(root, parents))
                 m == from_command(ctx.file.path, keys, command_keys, ctx.target)
             IN  [walk |-> "Continue",
                  st |-> IF is_some(m)
                         THEN [st EXCEPT !.matches = Append(@, unwrap(m))]
                         ELSE st]

\* the closure DsFile::matches hands to walk_commands
matches_visitor(ctx, keys, cmd, parents, st) ==
    LET root == group_of(ctx.file)
        node == node_at(root, cmd)
        scope == is_in_scope(node, ctx.current_dir, ctx.git_root)
    IN  IF ~scope.ok
        THEN [walk |-> "Stop",
              st |-> [st EXCEPT !.err = Some(<<"Error determining scope for command", keys>>)]]
        ELSE IF ~scope.val THEN [walk |-> "Skip", st |-> st]
        ELSE LET command_keys == resolve_aliases(node, keys, deref(root, parents))
                 m == from_command(ctx.file.path, keys, command_keys, ctx.target)
             IN  [walk |-> "Continue",
                  st |-> IF is_some(m)
                         THEN [st EXCEPT !.matches = Append(@, unwrap(m))]
                         ELSE st]

\* Command::command: the command string of a command, of the default command
\* of a group, or None
get_command(root, self) ==
    LET resolved == node_at(root, resolve_default(root, self, None).command)
    IN  IF resolved.kind \in {"Inline", "Config"} THEN Some(resolved.command) ELSE None

\* `envs.keys().map(..)` of get_help_rows: the names of the environments, the
\* default one in parentheses
help_envs(names, default_env) ==
    [i \in 1..Len(names) |->
        IF is_some(default_env) /\ names[i] = unwrap(default_env)
        THEN Some("(" \o names[i] \o ")")
        ELSE Some(names[i])]

\* `for env in envs { rows.push(HelpRow::new(..)) }` of get_help_rows
help_rows_pushed(rows, file_path, keys, alias_keys, command, envs) ==
    rows \o [i \in 1..Len(envs) |->
                [file_path |-> file_path, key |-> keys, alias_keys |-> alias_keys,
                 command |-> command, env |-> envs[i]]]

\* the rows of a command, given what resolve_envs returned for it
help_rows_of(rows, file_path, keys, alias_keys, command, envs) ==
    help_rows_pushed(rows, file_path, keys, alias_keys, command,
                     IF iter_keys(envs.merged) = <<>> THEN <<None>>
                     ELSE help_envs(iter_keys(envs.merged), envs.default_env))

\* the closure Group::get_help_rows hands to walk_tree
help_rows_visitor(ctx, keys, cmd, parents, st) ==
    LET root == group_of(ctx.file)
        node == node_at(root, cmd)
        scope == is_in_scope(node, ctx.current_dir, ctx.git_root)
    IN  IF ~scope.ok
        THEN [walk |-> "Stop",
              st |-> [st EXCEPT !.err = Some(<<"Error determining scope for command", keys>>)]]
        ELSE IF ~scope.val THEN [walk |-> "Skip", st |-> st]
        ELSE IF ~is_some(get_command(root, cmd)) THEN [walk |-> "Continue", st |-> st]
        ELSE [walk |-> "Continue",
              st |-> [st EXCEPT !.rows =
                         help_rows_of(@, ctx.file.path, keys,
                                      resolve_aliases(node, keys, deref(root, parents)),
                                      unwrap(get_command(root, cmd)),
                                      resolve_envs(node, deref(root, parents)))]]

\* what the called visitor returned, with the call added to the history
called(keys, cmd, parents, r) ==
    [r EXCEPT !.st.calls = Append(@, [keys |-> keys, command |-> cmd, parents |-> parents])]

\* on_command(keys, command, parents): the call of the visitor walk_tree was given
on_command(ctx, keys, cmd, parents, st) ==
    called(keys, cmd, parents,
           CASE ctx.visitor = "script" -> script_visitor(ctx, keys, cmd, parents, st)
             [] ctx.visitor = "help_rows" -> help_rows_visitor(ctx, keys, cmd, parents, st)
             [] OTHER -> matches_visitor(ctx, keys, cmd, parents, st))

RECURSIVE walk_tree(_, _, _, _, _)
RECURSIVE walk_entries(_, _, _, _, _, _)
RECURSIVE walk_visited(_, _, _, _, _, _)
RECURSIVE walk_returned(_, _, _, _)

\* a plausible slip: the Stop a sub-group's walk returned is not passed on
walk_returned_drops_stop(ctx, self, entries, w) ==
    walk_entries(ctx, self, Tail(entries), pop(w.keys), w.parents, w.st)

\* the `for (key, command) in self.commands.iter()` loop of walk_tree over the
\* entries still to visit; returns the Walk value, the two stacks as left and
\* the visitor's state
walk_entries(ctx, self, entries, keys, parents, st) ==
    IF entries = <<>>
    THEN [walk |-> "Continue", keys |-> keys, parents |-> pop(parents), st |-> st]
    ELSE walk_visited(ctx, self, entries, Append(keys, Head(entries)), parents,
                      on_command(ctx, Append(keys, Head(entries)),
                                 Append(self, Head(entries)), parents, st))

\* a plausible slip: the Stop arm gives the key back and leaves the group on
\* the parents stack
walk_visited_keeps_parent(ctx, self, entries, keys, parents, r) ==
    CASE r.walk = "Skip" ->
            walk_entries(ctx, self, Tail(entries), pop(keys), parents, r.st)
      [] r.walk = "Stop" ->
            [walk |-> "Stop", keys |-> pop(keys), parents |-> parents, st |-> r.st]
      [] OTHER ->
            IF node_at(group_of(ctx.file), Append(self, Head(entries))).kind = "Group"
            THEN walk_returned(ctx, self, entries,
                               walk_tree(ctx, Append(self, Head(entries)), keys, parents,
                                         r.st))
            ELSE walk_entries(ctx, self, Tail(entries), pop(keys), parents, r.st)

\* the `match on_command(..)` of the loop body: r is what the visitor returned
\* for the entry Head(entries), keys holds the entry's key
walk_visited(ctx, self, entries, keys, parents, r) ==
    CASE r.walk = "Skip" ->
            walk_entries(ctx, self, Tail(entries), pop(keys), parents, r.st)
      [] r.walk = "Stop" ->
            [walk |-> "Stop", keys |-> pop(keys), parents |-> pop(parents), st |-> r.st]
      [] OTHER ->
            IF node_at(group_of(ctx.file), Append(self, Head(entries))).kind = "Group"
            THEN walk_returned(ctx, self, entries,
                               walk_tree(ctx, Append(self, Head(entries)), keys, parents,
                                         r.st))
            ELSE walk_entries(ctx, self, Tail(entries), pop(keys), parents, r.st)

\* the `if let Walk::Stop = group.walk_tree(..)` of the loop body: w is what
\* the walk of the sub-group returned
walk_returned(ctx, self, entries, w) ==
    IF w.walk = "Stop"
    THEN [walk |-> "Stop", keys |-> pop(w.keys), parents |-> pop(w.parents), st |-> w.st]
    ELSE walk_entries(ctx, self, Tail(entries), pop(w.keys), w.parents, w.st)

\* Group::walk_tree on the group `self` refers to
walk_tree(ctx, self, keys, parents, st) ==
    walk_entries(ctx, self, iter_keys(node_at(group_of(ctx.file), self).commands),
                 keys, Append(parents, self), st)

\* Group::walk_commands
walk_commands(ctx, self, st) == walk_tree(ctx, self, <<>>, <<>>, st)

\* `err.map_or(Ok(rows), Err)` of get_help_rows
help_rows_result(st) ==
    IF is_some(st.err) THEN Err(unwrap(st.err)) ELSE Ok(st.rows)

\* Group::get_help_rows on the group `self` refers to, with the stacks given
get_help_rows(file, self, keys, parents, current_dir, git_root) ==
    help_rows_result(
        walk_tree([visitor |-> "help_rows", file |-> file, current_dir |-> current_dir,
                   git_root |-> git_root],
                  self, keys, parents, [rows |-> <<>>, err |-> None, calls |-> <<>>]).st)

\* DsFile::help_rows_for_match after command_from_keys returned c
help_rows_for_keys(file, keys, c, current_dir, git_root) ==
    IF ~c.ok THEN c
    ELSE IF node_at(group_of(file), c.val.command).kind = "Group"
    THEN get_help_rows(file, c.val.command, keys, c.val.parents, current_dir, git_root)
    ELSE Err("Only groups have help rows")

\* DsFile::help_rows_for_match
help_rows_for_match(file, m, current_dir, git_root) ==
    help_rows_for_keys(file, m.keys, command_from_keys(file, m.keys), current_dir, git_root)

\* DsFile::help_rows: the rows of the whole document
help_rows(file, current_dir, git_root) ==
    get_help_rows(file, <<>>, <<>>, <<>>, current_dir, git_root)

\* the maximum of the scores, 0 for no match
RECURSIVE max_score(_)
max_score(ms) ==
    IF ms = <<>> THEN 0
    ELSE LET rest == max_score(Tail(ms))
         IN  IF Head(ms).score >= rest THEN Head(ms).score ELSE rest

\* a plausible slip: every collected match is returned, not only the deepest
matches_unfiltered(st) ==
    IF is_some(st.err) THEN Err(unwrap(st.err))
    ELSE Ok(st.matches)

\* the end of DsFile::matches, after the walk: the error the visitor recorded,
\* or the collected matches of the maximum score
matches_result(st) ==
    IF is_some(st.err) THEN Err(unwrap(st.err))
    ELSE LET max_depth == max_score(st.matches)
         IN  Ok(SelectSeq(st.matches, LAMBDA m : m.score = max_depth))

\* what the closure of DsFile::matches captures
matches_ctx(file, target, current_dir, git_root) ==
    [visitor |-> "matches", file |-> file, target |-> target,
     current_dir |-> current_dir, git_root |-> git_root]

\* `let mut matches = Vec::new(); let mut err = None;`
matches_st == [matches |-> <<>>, err |-> None, calls |-> <<>>]

\* DsFile::matches
matches(file, target, current_dir, git_root) ==
    matches_result(walk_commands(matches_ctx(file, target, current_dir, git_root),
                                 <<>>, matches_st).st)

-----------------------------------------------------------------------------
(* GlobalConfig, src/src/config.rs *)

\* get_config_dir: ~/.config/do-something
config_dir == HomeDir \o <<".config", "do-something">>

\* the ds_files loop of get_command_paths: tilde expansion, a relative entry
\* is joined to the config directory, and glob yields the entry if it exists
\* (the entries hold no wildcard)
RECURSIVE ds_files_paths(_, _)
ds_files_paths(entries, fs) ==
    IF entries = <<>> THEN <<>>
    ELSE LET file == Head(entries)
             path == IF file # <<>> /\ Head(file) = "~" THEN HomeDir \o Tail(file) ELSE file
             resolved == IF path # <<>> /\ Head(path) = "/" THEN path
                         ELSE config_dir \o path
             globbed == IF exists(fs, resolved) /\ resolved # Append(config_dir, "config.json")
                        THEN <<resolved>> ELSE <<>>
         IN  globbed \o ds_files_paths(Tail(entries), fs)

\* the last loop of get_command_paths: duplicates and missing files go
RECURSIVE dedupe(_, _, _)
dedupe(paths, seen, fs) ==
    IF paths = <<>> THEN <<>>
    ELSE LET p == Head(paths)
         IN  IF p \notin seen /\ exists(fs, p)
             THEN <<p>> \o dedupe(Tail(paths), seen \cup {p}, fs)
             ELSE dedupe(Tail(paths), seen \cup {p}, fs)

\* GlobalConfig::get_command_paths: the files in discovery order
get_command_paths(config, fs, current_dir, git_root) ==
    LET first == <<Append(config_dir, "ds.json")>>
        listed == IF is_some(config.ds_files) THEN ds_files_paths(unwrap(config.ds_files), fs)
                  ELSE <<>>
        in_git == IF is_some(git_root) THEN <<Append(unwrap(git_root), "ds.json")>> ELSE <<>>
        in_cwd == <<Append(current_dir, "ds.json")>>
    IN  dedupe(first \o listed \o in_git \o in_cwd, {}, fs)

-----------------------------------------------------------------------------
(* DoSomething, src/src/do_something.rs *)

\* DsFiles::load_file: the file and the collection after the call
\* a plausible slip: a file that is loaded already is answered with a file of
\* the map, whatever its path
load_file_any_cached(files, fs, path) ==
    IF path \in DOMAIN files
    THEN [res |-> Ok(files[CHOOSE q \in DOMAIN files : TRUE]), files |-> files]
    ELSE LET ds_file == from_file(fs, path)
         IN  IF ds_file.ok
             THEN [res |-> ds_file,
                   files |-> [q \in DOMAIN files \cup {path} |->
                                 IF q = path THEN ds_file.val ELSE files[q]]]
             ELSE [res |-> ds_file, files |-> files]

load_file(files, fs, path) ==
    IF path \in DOMAIN files THEN [res |-> Ok(files[path]), files |-> files]
    ELSE LET ds_file == from_file(fs, path)
         IN  IF ds_file.ok
             THEN [res |-> ds_file,
                   files |-> [p \in DOMAIN files \cup {path} |->
                                 IF p = path THEN ds_file.val ELSE files[p]]]
             ELSE [res |-> ds_file, files |-> files]

\* Iterator::rev on a vector
rev(v) == [i \in 1..Len(v) |-> v[Len(v) + 1 - i]]

\* the end of match_command: the first collected match
first_match(ms) ==
    IF ms = <<>> THEN Err("No matching command found") ELSE Ok(Head(ms))

\* `matches.extend(file_matches.into_iter().rev())` without the rev, a
\* plausible slip: the first-discovered match of a file comes first
extend_forward(ms, file_matches) == ms \o file_matches

\* `matches.extend(file_matches.into_iter().rev())`
extend_matches(ms, file_matches) == ms \o rev(file_matches)

\* a plausible slip: the Override arm is missing, every file is consulted
on_conflict_no_break(on_conflict, ms) ==
    CASE on_conflict = "Error" /\ Len(ms) > 1 -> "error"
      [] OTHER -> "continue"

\* a plausible slip: the Error arm compares with 2, two matches pass
on_conflict_off_by_one(on_conflict, ms) ==
    CASE on_conflict = "Override" /\ ms # <<>> -> "break"
      [] on_conflict = "Error" /\ Len(ms) > 2 -> "error"
      [] OTHER -> "continue"

\* the `match &self.config.on_conflict` of match_command, after a file's
\* matches were added: leave the loop, fail with a conflict, or go on
on_conflict_arm(on_conflict, ms) ==
    CASE on_conflict = "Override" /\ ms # <<>> -> "break"
      [] on_conflict = "Error" /\ Len(ms) > 1 -> "error"
      [] OTHER -> "continue"

\* DoSomething::command_from_match, given what load_file returned
command_from_match(file, match_) ==
    IF file.ok THEN command_from_keys(file.val, match_.keys) ELSE file

-----------------------------------------------------------------------------
(* The runner: Env::get_env_vars (env.rs), Command::runner (command.rs),   *)
(* the command string (runner.rs) and DoSomething::run_match.  A command   *)
(* string is the sequence of its pieces, each a text that is quoted or not *)

\* what the dotenv files hold
DotenvFiles ==
    [p \in {<<".env.dev">>} |->
        [v \in {"ENVIRONMENT", "ENV_VAR"} |->
            IF v = "ENV_VAR" THEN "env_value" ELSE "development"]]

\* Env::get_env_vars: the RunnerEnv of an environment
get_env_vars(env) ==
    CASE env.kind = "Dotenv" -> [command |-> None, vars |-> Some(DotenvFiles[env.path])]
      [] env.kind = "Command" -> [command |-> Some(env.command), vars |-> env.vars]
      [] OTHER -> [command |-> None, vars |-> Some(env.vars)]

\* the tokens shell_escape::escape has to quote: those with a character
\* outside letters, digits and -_=/,.+
needs_quotes(arg) == arg \in {"two words", "(dev)", "(prod)"}

piece(text) == [text |-> text, quoted |-> FALSE]

\* escape(arg): the token as it is, or in single quotes
escape(arg) == [text |-> arg, quoted |-> needs_quotes(arg)]

\* the loop `for arg in args { push(' '); push_str(escape(arg)) }`, from arg i on
RECURSIVE push_args(_, _, _)
push_args(command_str, args, i) ==
    IF i > Len(args) THEN command_str
    ELSE push_args(command_str \o <<piece(" "), escape(args[i])>>, args, i + 1)

\* the command prefix of the environment in front of the command string
with_prefix(runner_env, command_str) ==
    IF is_some(runner_env.command)
    THEN <<piece(unwrap(runner_env.command)), piece(" ")>> \o command_str
    ELSE command_str

\* the runner of a command with its extra arguments and the RunnerEnv of the
\* selected environment
command_runner(command, extra_args, runner_env) ==
    [kind |-> "Command", cmd_str |-> command,
     command_str |-> push_args(with_prefix(runner_env, <<piece(command)>>), extra_args, 1),
     envs |-> runner_env.vars]

\* Runner::from_command: Help for a group, else the command to run
runner_from_command(cmd, parents, extra_args, env) ==
    IF cmd.kind = "Group"
    THEN Ok([kind |-> "Help", cmd_str |-> "", command_str |-> <<>>, envs |-> None])
    ELSE Ok(command_runner(cmd.command, extra_args,
                           IF is_some(env) THEN get_env_vars(unwrap(env))
                           ELSE [command |-> None, vars |-> None]))

\* Command::runner after match_env returned me
runner_matched(cmd, parents, args, me) ==
    IF ~me.ok THEN me
    ELSE IF is_some(me.val)
    THEN runner_from_command(cmd, parents, unwrap(me.val)[2], Some(unwrap(me.val)[1]))
    ELSE runner_from_command(cmd, parents, args, None)

\* Command::runner after resolve_envs returned envs
runner_envs(cmd, parents, args, envs) ==
    runner_matched(cmd, parents, args, match_env(envs.merged, envs.default_env, args))

\* Command::runner
runner(cmd, parents, args) == runner_envs(cmd, parents, args, resolve_envs(cmd, parents))

\* match_command over one discovered file, given what file.matches returned
match_command_one(on_conflict, file_matches) ==
    IF ~file_matches.ok THEN file_matches
    ELSE IF on_conflict_arm(on_conflict, extend_matches(<<>>, file_matches.val)) = "error"
    THEN Err("Conflict detected in group")
    ELSE first_match(extend_matches(<<>>, file_matches.val))

\* a plausible slip: as many tokens are dropped as the match has keys
run_resolved_skips_keys(file, line, m, c) ==
    IF ~c.ok THEN [match |-> m, command |-> c, runner |-> c]
    ELSE [match |-> m, command |-> c,
          runner |-> runner(node_at(group_of(file), c.val.command),
                            deref(group_of(file), c.val.parents),
                            SubSeq(line, Len(m.val.keys) + 1, Len(line)))]

\* run_match after command_from_match returned c:
\* command.runner(&parents, &args_str[match_.score..])
run_resolved(file, line, m, c) ==
    IF ~c.ok THEN [match |-> m, command |-> c, runner |-> c]
    ELSE [match |-> m, command |-> c,
          runner |-> runner(node_at(group_of(file), c.val.command),
                            deref(group_of(file), c.val.parents),
                            SubSeq(line, m.val.score + 1, Len(line)))]

\* run_match after match_command returned m
run_matched(file, line, m) ==
    IF ~m.ok THEN [match |-> m, command |-> m, runner |-> m]
    ELSE run_resolved(file, line, m, command_from_keys(file, m.val.keys))

-----------------------------------------------------------------------------
(* Specification of one invocation of `ds <target>`: DoSomething::new has  *)
(* discovered the files, match_command consults them one by one, then      *)
(* command_from_match resolves the match.                                  *)

\* the directory ds runs in and the repository root git2 discovers from it
Dirs ==
    {[current_dir |-> <<"/", "repo">>, git_root |-> Some(<<"/", "repo">>)],
     [current_dir |-> <<"/", "repo", "sub">>, git_root |-> Some(<<"/", "repo">>)],
     [current_dir |-> <<"/", "other">>, git_root |-> None]}

\* the ds_files entry a config.json may list
ListedFile == <<"~", "work", "ds.json">>

Configs ==
    [on_conflict : {"Override", "Error"}, ds_files : {None, Some(<<ListedFile>>)}]

\* the places get_command_paths looks at
Candidates(config, dirs) ==
    {Append(config_dir, "ds.json"), Append(dirs.current_dir, "ds.json")}
        \cup (IF is_some(dirs.git_root) THEN {Append(unwrap(dirs.git_root), "ds.json")}
              ELSE {})
        \cup (IF is_some(config.ds_files) THEN {HomeDir \o Tail(ListedFile)} ELSE {})

\* the file systems: what each place holds, at most MaxFiles files in all
FileSystems(config, dirs) ==
    {f \in [Candidates(config, dirs) -> Contents \cup {"absent"}] :
        Cardinality({p \in DOMAIN f : f[p] # "absent"}) <= MaxFiles}

\* the tokens of the command line
ArgTokens == {"app", "a", "build", "g1"}

Targets == {t \in SeqsUpTo(ArgTokens, MaxArgs) : Len(t) >= 1}

FcIdle == fc_args = <<>> /\ fc_res = <<>>

EnvIdle == env_args = <<>> /\ env_res = <<>>

MeIdle == me_args = <<>> /\ me_res = <<>>

TuiIdle == tui_app = <<>> /\ tui_res = <<>>

IvIdle == iv_children = <<>> /\ iv_run = <<>>

TwIdle == tw_first = <<>> /\ tw_cache = <<>>

RrIdle == rr_args = <<>> /\ rr_res = <<>>

RmIdle == rm_args = <<>> /\ rm_res = <<>>

AlIdle == al_args = <<>> /\ al_res = <<>>

WkIdle == wk_args = <<>> /\ wk_res = <<>>

ScIdle == sc_args = <<>> /\ sc_res = <<>>

DsIdle ==
    /\ self_config = <<>> /\ disk = <<>> /\ self_current_dir = <<>> /\ self_git_root = <<>>
    /\ self_paths = <<>> /\ args_str = <<>> /\ self_ds_files = <<>> /\ mc_matches = <<>>
    /\ mc_i = 0 /\ mc_last = <<>> /\ mc_res = <<>> /\ cm_res = <<>>

Init ==
    /\ pc = "match_command"
    /\ self_config \in Configs
    /\ \E dirs \in Dirs :
          /\ self_current_dir = dirs.current_dir
          /\ self_git_root = dirs.git_root
          /\ disk \in FileSystems(self_config, dirs)
    /\ self_paths = get_command_paths(self_config, disk, self_current_dir, self_git_root)
    /\ args_str \in Targets
    /\ self_ds_files = <<>>
    /\ mc_matches = <<>>
    /\ mc_i = 1
    /\ mc_last = None
    /\ mc_res = None
    /\ cm_res = None
    /\ FcIdle
    /\ EnvIdle
    /\ MeIdle
    /\ ScIdle
    /\ WkIdle
    /\ AlIdle
    /\ RmIdle
    /\ RrIdle
    /\ TwIdle
    /\ IvIdle
    /\ TuiIdle

\* match_command returns: `return Err(..)`, `?`, or the value after the loop
Return(res) ==
    /\ mc_res' = Some(res)
    /\ pc' = IF res.ok THEN "command_from_match" ELSE "failed"

\* the `match &self.config.on_conflict` of the loop body on the matches
\* collected so far
OnConflict(ms) ==
    /\ mc_matches' = ms
    /\ CASE on_conflict_arm(self_config.on_conflict, ms) = "break" ->
              /\ Return(first_match(ms))
              /\ UNCHANGED mc_i
         [] on_conflict_arm(self_config.on_conflict, ms) = "error" ->
              /\ Return(Err("Conflict detected in group"))
              /\ UNCHANGED mc_i
         [] OTHER ->
              /\ mc_i' = mc_i + 1
              /\ UNCHANGED <<pc, mc_res>>

\* `let file_matches = file.matches(..)?` and `matches.extend(..)`
FileMatches(path, file_matches) ==
    /\ mc_last' = Some([path |-> path, res |-> file_matches])
    /\ IF ~file_matches.ok
       THEN /\ Return(file_matches)
            /\ UNCHANGED <<mc_matches, mc_i>>
       ELSE OnConflict(extend_matches(mc_matches, file_matches.val))

\* `let file = self.ds_files.load_file(path)?`
LoadFile(path, loaded) ==
    /\ self_ds_files' = loaded.files
    /\ IF ~loaded.res.ok
       THEN /\ Return(loaded.res)
            /\ UNCHANGED <<mc_matches, mc_i, mc_last>>
       ELSE FileMatches(path, matches(loaded.res.val, args_str, self_current_dir,
                                      self_git_root))

\* one iteration of `for path in &self.paths`
MatchCommandFile ==
    /\ pc = "match_command"
    /\ mc_i <= Len(self_paths)
    /\ LoadFile(self_paths[mc_i], load_file(self_ds_files, disk, self_paths[mc_i]))
    /\ UNCHANGED <<self_config, disk, self_current_dir, self_git_root, self_paths, args_str, cm_res>>
    /\ UNCHANGED <<fc_args, fc_res, env_args, env_res, me_args, me_res>>
    /\ UNCHANGED <<sc_args, sc_res>>
    /\ UNCHANGED <<wk_args, wk_res>>
    /\ UNCHANGED <<al_args, al_res>>
    /\ UNCHANGED <<rm_args, rm_res>>
    /\ UNCHANGED <<rr_args, rr_res>>
    /\ UNCHANGED <<tw_first, tw_cache>>
    /\ UNCHANGED <<iv_children, iv_run>>
    /\ UNCHANGED <<tui_app, tui_res>>

\* the loop of match_command ran out of files
MatchCommandEnd ==
    /\ pc = "match_command"
    /\ mc_i > Len(self_paths)
    /\ Return(first_match(mc_matches))
    /\ UNCHANGED <<self_config, disk, self_current_dir, self_git_root, self_paths, args_str, self_ds_files,
                   mc_matches, mc_i, mc_last, cm_res>>
    /\ UNCHANGED <<fc_args, fc_res, env_args, env_res, me_args, me_res>>
    /\ UNCHANGED <<sc_args, sc_res>>
    /\ UNCHANGED <<wk_args, wk_res>>
    /\ UNCHANGED <<al_args, al_res>>
    /\ UNCHANGED <<rm_args, rm_res>>
    /\ UNCHANGED <<rr_args, rr_res>>
    /\ UNCHANGED <<tw_first, tw_cache>>
    /\ UNCHANGED <<iv_children, iv_run>>
    /\ UNCHANGED <<tui_app, tui_res>>

\* DoSomething::command_from_match on the match match_command returned
CommandFromMatch ==
    /\ pc = "command_from_match"
    /\ self_ds_files' =
           load_file(self_ds_files, disk, unwrap(mc_res).val.file_path).files
    /\ cm_res' =
           Some(command_from_match(
                    load_file(self_ds_files, disk, unwrap(mc_res).val.file_path).res,
                    unwrap(mc_res).val))
    /\ pc' = IF unwrap(cm_res').ok THEN "resolved" ELSE "failed"
    /\ UNCHANGED <<self_config, disk, self_current_dir, self_git_root, self_paths, args_str,
                   mc_matches, mc_i, mc_last, mc_res>>
    /\ UNCHANGED <<fc_args, fc_res, env_args, env_res, me_args, me_res>>
    /\ UNCHANGED <<sc_args, sc_res>>
    /\ UNCHANGED <<wk_args, wk_res>>
    /\ UNCHANGED <<al_args, al_res>>
    /\ UNCHANGED <<rm_args, rm_res>>
    /\ UNCHANGED <<rr_args, rr_res>>
    /\ UNCHANGED <<tw_first, tw_cache>>
    /\ UNCHANGED <<iv_children, iv_run>>
    /\ UNCHANGED <<tui_app, tui_res>>

Next == MatchCommandFile \/ MatchCommandEnd \/ CommandFromMatch

Spec == Init /\ [][Next]_vars

-----------------------------------------------------------------------------
(* Specification of the matcher alone: the arguments are drawn from all    *)
(* level lists and token vectors within the bounds, then the function is   *)
(* applied.                                                                *)

\* the canonical keys of a level list: the first name of each level
CanonicalKeys(alias_keys) == [i \in 1..Len(alias_keys) |-> alias_keys[i][1]]

InitFromCommand ==
    /\ pc = "fc_call"
    /\ fc_args \in [alias_keys : SeqsUpTo(LevelNames, MaxLevels),
                    target : SeqsUpTo(Tokens, MaxTarget)]
    /\ fc_res = None
    /\ DsIdle
    /\ EnvIdle
    /\ MeIdle
    /\ ScIdle
    /\ WkIdle
    /\ AlIdle
    /\ RmIdle
    /\ RrIdle
    /\ TwIdle
    /\ IvIdle
    /\ TuiIdle

CallFromCommand ==
    /\ pc = "fc_call"
    /\ fc_res' = from_command(<<"ds.json">>, CanonicalKeys(fc_args.alias_keys),
                              fc_args.alias_keys, fc_args.target)
    /\ pc' = "fc_done"
    /\ UNCHANGED fc_args
    /\ UNCHANGED <<self_config, disk, self_current_dir, self_git_root, self_paths, args_str, self_ds_files,
                   mc_matches, mc_i, mc_last, mc_res, cm_res, env_args, env_res>>
    /\ UNCHANGED <<me_args, me_res>>
    /\ UNCHANGED <<sc_args, sc_res>>
    /\ UNCHANGED <<wk_args, wk_res>>
    /\ UNCHANGED <<al_args, al_res>>
    /\ UNCHANGED <<rm_args, rm_res>>
    /\ UNCHANGED <<rr_args, rr_res>>
    /\ UNCHANGED <<tw_first, tw_cache>>
    /\ UNCHANGED <<iv_children, iv_run>>
    /\ UNCHANGED <<tui_app, tui_res>>

NextFromCommand == CallFromCommand

SpecFromCommand == InitFromCommand /\ [][NextFromCommand]_vars

-----------------------------------------------------------------------------
(* Specification of Command::resolve_envs alone: a node and its ancestors, *)
(* root first, are drawn from the groups and commands below, then the      *)
(* function is applied.                                                    *)

\* the envs maps of the explored nodes; the path of a Dotenv tells the maps apart
EnvMaps ==
    {None,
     Some([e \in {"dev"} |-> Dotenv(<<".env.outer">>)]),
     Some([e \in {"dev", "prod"} |->
              IF e = "dev" THEN Dotenv(<<".env.inner">>)
              ELSE EnvVars([v \in {"ENVIRONMENT"} |-> "production"])])}

DefaultEnvs == {None, Some("dev"), Some("prod")}

\* the ancestors: groups that differ in envs and default_env only
EnvGroups ==
    {deserialize(GroupJson(None, <<>>, envs, default_env, None, None, None)) :
        envs \in EnvMaps, default_env \in DefaultEnvs}

\* the nodes: a plain string, or a Config with envs and default_env
EnvCommands ==
    {Inline("echo x")}
        \cup {Config("echo x", envs, default_env, None, None) :
                 envs \in EnvMaps, default_env \in DefaultEnvs}

InitEnvs ==
    /\ pc = "env_call"
    /\ env_args \in [node : EnvCommands, parents : SeqsUpTo(EnvGroups, MaxParents)]
    /\ env_res = None
    /\ DsIdle
    /\ FcIdle
    /\ MeIdle
    /\ ScIdle
    /\ WkIdle
    /\ AlIdle
    /\ RmIdle
    /\ RrIdle
    /\ TwIdle
    /\ IvIdle
    /\ TuiIdle

ResolveEnvs ==
    /\ pc = "env_call"
    /\ env_res' = Some(resolve_envs(env_args.node, env_args.parents))
    /\ pc' = "env_done"
    /\ UNCHANGED env_args
    /\ UNCHANGED <<self_config, disk, self_current_dir, self_git_root, self_paths, args_str,
                   self_ds_files, mc_matches, mc_i, mc_last, mc_res, cm_res, fc_args, fc_res>>
    /\ UNCHANGED <<me_args, me_res>>
    /\ UNCHANGED <<sc_args, sc_res>>
    /\ UNCHANGED <<wk_args, wk_res>>
    /\ UNCHANGED <<al_args, al_res>>
    /\ UNCHANGED <<rm_args, rm_res>>
    /\ UNCHANGED <<rr_args, rr_res>>
    /\ UNCHANGED <<tw_first, tw_cache>>
    /\ UNCHANGED <<iv_children, iv_run>>
    /\ UNCHANGED <<tui_app, tui_res>>

NextEnvs == ResolveEnvs

SpecEnvs == InitEnvs /\ [][NextEnvs]_vars

-----------------------------------------------------------------------------
(* Specification of match_env alone: the merged environments, the default  *)
(* and the arguments are drawn from the sets below, then the function is   *)
(* applied.                                                                *)

\* the merged maps: empty, one environment, two environments
MergedEnvs ==
    {<<>>,
     [e \in {"dev"} |-> Dotenv(<<".env.dev">>)],
     [e \in {"dev", "prod"} |->
         IF e = "dev" THEN Dotenv(<<".env.dev">>)
         ELSE EnvVars([v \in {"MODE"} |-> "prod"])]}

\* the tokens left for match_env: environment names and another argument
EnvTokens == {"dev", "prod", "--extra-flag"}

InitMatchEnv ==
    /\ pc = "me_call"
    /\ me_args \in [envs : MergedEnvs,
                    default_env : {None, Some("dev"), Some("prod"), Some("missing")},
                    args : SeqsUpTo(EnvTokens, MaxArgs)]
    /\ me_res = None
    /\ DsIdle
    /\ FcIdle
    /\ EnvIdle
    /\ ScIdle
    /\ WkIdle
    /\ AlIdle
    /\ RmIdle
    /\ RrIdle
    /\ TwIdle
    /\ IvIdle
    /\ TuiIdle

MatchEnv ==
    /\ pc = "me_call"
    /\ me_res' = Some(match_env(me_args.envs, me_args.default_env, me_args.args))
    /\ pc' = "me_done"
    /\ UNCHANGED me_args
    /\ UNCHANGED <<self_config, disk, self_current_dir, self_git_root, self_paths, args_str,
                   self_ds_files, mc_matches, mc_i, mc_last, mc_res, cm_res, fc_args, fc_res>>
    /\ UNCHANGED <<env_args, env_res>>
    /\ UNCHANGED <<sc_args, sc_res>>
    /\ UNCHANGED <<wk_args, wk_res>>
    /\ UNCHANGED <<al_args, al_res>>
    /\ UNCHANGED <<rm_args, rm_res>>
    /\ UNCHANGED <<rr_args, rr_res>>
    /\ UNCHANGED <<tw_first, tw_cache>>
    /\ UNCHANGED <<iv_children, iv_run>>
    /\ UNCHANGED <<tui_app, tui_res>>

NextMatchEnv == MatchEnv

SpecMatchEnv == InitMatchEnv /\ [][NextMatchEnv]_vars

-----------------------------------------------------------------------------
(* Specification of Command::is_in_scope alone: a node with or without a   *)
(* root, a current directory and a discovered repository root are drawn    *)
(* from the sets below, then the function is applied.                      *)

\* the root paths of the explored nodes; the empty one cannot be resolved
RootPaths == {<<"/", "repo">>, <<"/", "repo", "sub">>, <<"~", "proj">>, <<>>}

RootScopes == {"Global", "GitRoot", "Exact"}

Roots == {None} \cup {Some(RootConfig(path, scope)) : path \in RootPaths, scope \in RootScopes}

\* the nodes: a plain string, a Config and a Group with every root
ScopedCommands ==
    {Inline("echo x")}
        \cup {Config("echo x", None, None, root, None) : root \in Roots}
        \cup {deserialize(GroupJson(None, <<>>, None, None, root, None, None)) : root \in Roots}

CurrentDirs ==
    {<<"/", "repo">>, <<"/", "repo", "sub">>, <<"/", "other">>, <<"/", "home", "u", "proj">>}

GitRoots ==
    {None, Some(<<"/", "repo">>), Some(<<"/", "repo", "sub">>), Some(<<"/", "other">>)}

InitScope ==
    /\ pc = "sc_call"
    /\ sc_args \in [cmd : ScopedCommands, current_dir : CurrentDirs, git_root : GitRoots]
    /\ sc_res = None
    /\ DsIdle
    /\ FcIdle
    /\ EnvIdle
    /\ MeIdle
    /\ WkIdle
    /\ AlIdle
    /\ RmIdle
    /\ RrIdle
    /\ TwIdle
    /\ IvIdle
    /\ TuiIdle

IsInScope ==
    /\ pc = "sc_call"
    /\ sc_res' = Some(is_in_scope(sc_args.cmd, sc_args.current_dir, sc_args.git_root))
    /\ pc' = "sc_done"
    /\ UNCHANGED sc_args
    /\ UNCHANGED <<self_config, disk, self_current_dir, self_git_root, self_paths, args_str,
                   self_ds_files, mc_matches, mc_i, mc_last, mc_res, cm_res, fc_args, fc_res>>
    /\ UNCHANGED <<env_args, env_res, me_args, me_res>>
    /\ UNCHANGED <<wk_args, wk_res>>
    /\ UNCHANGED <<al_args, al_res>>
    /\ UNCHANGED <<rm_args, rm_res>>
    /\ UNCHANGED <<rr_args, rr_res>>
    /\ UNCHANGED <<tw_first, tw_cache>>
    /\ UNCHANGED <<iv_children, iv_run>>
    /\ UNCHANGED <<tui_app, tui_res>>

NextScope == IsInScope

SpecScope == InitScope /\ [][NextScope]_vars

-----------------------------------------------------------------------------
(* Group::walk_tree under an arbitrary visitor: the visitor answers each    *)
(* command with a verdict fixed in advance.                                  *)

Walks == {"Continue", "Skip", "Stop"}

\* the key paths of the commands of a group, as walk_tree can come to them
RECURSIVE command_paths(_)
command_paths(group) ==
    UNION {{<<k>>} \cup
           (IF group.commands[k].kind = "Group"
            THEN {<<k>> \o q : q \in command_paths(group.commands[k])}
            ELSE {}) : k \in DOMAIN group.commands}

InitWalk ==
    /\ pc = "wk_call"
    /\ \E n \in DocNames :
          \E verdict \in [command_paths(Documents[n]) -> Walks] :
             wk_args = [file |-> [doc |-> n, path |-> <<"/", "ds.json">>],
                        verdict |-> verdict]
    /\ wk_res = None
    /\ DsIdle
    /\ FcIdle
    /\ EnvIdle
    /\ MeIdle
    /\ ScIdle
    /\ AlIdle
    /\ RmIdle
    /\ RrIdle
    /\ TwIdle
    /\ IvIdle
    /\ TuiIdle

\* self.walk_tree(&mut keys, &mut parents, on_command) on the top-level group
WalkTree ==
    /\ pc = "wk_call"
    /\ wk_res' = Some(walk_tree([visitor |-> "script", file |-> wk_args.file,
                                 verdict |-> wk_args.verdict],
                                <<>>, <<>>, <<>>, matches_st))
    /\ pc' = "wk_done"
    /\ UNCHANGED wk_args
    /\ UNCHANGED <<self_config, disk, self_current_dir, self_git_root, self_paths, args_str,
                   self_ds_files, mc_matches, mc_i, mc_last, mc_res, cm_res, fc_args, fc_res>>
    /\ UNCHANGED <<env_args, env_res, me_args, me_res>>
    /\ UNCHANGED <<sc_args, sc_res>>
    /\ UNCHANGED <<al_args, al_res>>
    /\ UNCHANGED <<rm_args, rm_res>>
    /\ UNCHANGED <<rr_args, rr_res>>
    /\ UNCHANGED <<tw_first, tw_cache>>
    /\ UNCHANGED <<iv_children, iv_run>>
    /\ UNCHANGED <<tui_app, tui_res>>

NextWalk == WalkTree

SpecWalk == InitWalk /\ [][NextWalk]_vars

-----------------------------------------------------------------------------
(* DsFile::matches called for a target and again for the target with one    *)
(* token replaced.                                                           *)

AliasTokens == {"app", "a", "build", "b", "dev"}

AliasDirs ==
    {[current_dir |-> <<"/", "repo">>, git_root |-> Some(<<"/", "repo">>)],
     [current_dir |-> <<"/", "other">>, git_root |-> None]}

InitAlias ==
    /\ pc = "al_call"
    /\ \E n \in DocNames \cup {"aliased", "roots"}, d \in AliasDirs :
          \E target \in {t \in SeqsUpTo(AliasTokens, MaxTarget) : Len(t) >= 1} :
             al_args = [file |-> [doc |-> n, path |-> <<"/", "ds.json">>],
                        target |-> target,
                        current_dir |-> d.current_dir, git_root |-> d.git_root]
    /\ al_res = None
    /\ DsIdle
    /\ FcIdle
    /\ EnvIdle
    /\ MeIdle
    /\ ScIdle
    /\ WkIdle
    /\ RmIdle
    /\ RrIdle
    /\ TwIdle
    /\ IvIdle
    /\ TuiIdle

\* file.matches(target, current_dir, git_root)
Matches ==
    /\ pc = "al_call"
    /\ al_res' = Some([first |-> matches(al_args.file, al_args.target,
                                         al_args.current_dir, al_args.git_root)])
    /\ pc' = "al_matched"
    /\ UNCHANGED al_args
    /\ UNCHANGED <<self_config, disk, self_current_dir, self_git_root, self_paths, args_str,
                   self_ds_files, mc_matches, mc_i, mc_last, mc_res, cm_res, fc_args, fc_res>>
    /\ UNCHANGED <<env_args, env_res, me_args, me_res>>
    /\ UNCHANGED <<sc_args, sc_res>>
    /\ UNCHANGED <<wk_args, wk_res>>
    /\ UNCHANGED <<rm_args, rm_res>>
    /\ UNCHANGED <<rr_args, rr_res>>
    /\ UNCHANGED <<tw_first, tw_cache>>
    /\ UNCHANGED <<iv_children, iv_run>>
    /\ UNCHANGED <<tui_app, tui_res>>

\* file.matches(..) for the target with the token at position j replaced by n
MatchesReplaced ==
    /\ pc = "al_matched"
    /\ \E j \in 1..Len(al_args.target), n \in AliasTokens :
          al_res' = Some([first |-> unwrap(al_res).first, j |-> j, n |-> n,
                          second |-> matches(al_args.file,
                                             [al_args.target EXCEPT ![j] = n],
                                             al_args.current_dir, al_args.git_root)])
    /\ pc' = "al_replaced"
    /\ UNCHANGED al_args
    /\ UNCHANGED <<self_config, disk, self_current_dir, self_git_root, self_paths, args_str,
                   self_ds_files, mc_matches, mc_i, mc_last, mc_res, cm_res, fc_args, fc_res>>
    /\ UNCHANGED <<env_args, env_res, me_args, me_res>>
    /\ UNCHANGED <<sc_args, sc_res>>
    /\ UNCHANGED <<wk_args, wk_res>>
    /\ UNCHANGED <<rm_args, rm_res>>
    /\ UNCHANGED <<rr_args, rr_res>>
    /\ UNCHANGED <<tw_first, tw_cache>>
    /\ UNCHANGED <<iv_children, iv_run>>
    /\ UNCHANGED <<tui_app, tui_res>>

NextAlias == Matches \/ MatchesReplaced

SpecAlias == InitAlias /\ [][NextAlias]_vars

-----------------------------------------------------------------------------
(* DoSomething::run_match for one discovered file, up to the runner.        *)

RunDocNames == {"full", "scenario"}

\* the tokens that name commands and those that follow them
CommandTokens == {"app", "with-env", "build", "b"}

ExtraTokens == {"prod", "dev", "--extra-flag", "two words"}

CommandLines ==
    {h \o t : h \in {x \in SeqsUpTo(CommandTokens, MaxTarget) : Len(x) >= 1},
              t \in SeqsUpTo(ExtraTokens, MaxArgs)}

InitRun ==
    /\ pc = "rm_call"
    /\ \E n \in RunDocNames, line \in CommandLines :
          rm_args = [file |-> [doc |-> n, path |-> <<"/", "repo", "ds.json">>],
                     on_conflict |-> "Override",
                     args_str |-> line,
                     current_dir |-> <<"/", "repo">>,
                     git_root |-> Some(<<"/", "repo">>)]
    /\ rm_res = None
    /\ DsIdle
    /\ FcIdle
    /\ EnvIdle
    /\ MeIdle
    /\ ScIdle
    /\ WkIdle
    /\ AlIdle
    /\ RrIdle
    /\ TwIdle
    /\ IvIdle
    /\ TuiIdle

\* run_match(args_str) up to `let runner = ..?`
RunMatch ==
    /\ pc = "rm_call"
    /\ rm_res' = Some(run_matched(rm_args.file, rm_args.args_str,
                                  match_command_one(rm_args.on_conflict,
                                      matches(rm_args.file, rm_args.args_str,
                                              rm_args.current_dir, rm_args.git_root))))
    /\ pc' = "rm_done"
    /\ UNCHANGED rm_args
    /\ UNCHANGED <<self_config, disk, self_current_dir, self_git_root, self_paths, args_str,
                   self_ds_files, mc_matches, mc_i, mc_last, mc_res, cm_res, fc_args, fc_res>>
    /\ UNCHANGED <<env_args, env_res, me_args, me_res>>
    /\ UNCHANGED <<sc_args, sc_res>>
    /\ UNCHANGED <<wk_args, wk_res>>
    /\ UNCHANGED <<al_args, al_res>>
    /\ UNCHANGED <<rr_args, rr_res>>
    /\ UNCHANGED <<tw_first, tw_cache>>
    /\ UNCHANGED <<iv_children, iv_run>>
    /\ UNCHANGED <<tui_app, tui_res>>

NextRun == RunMatch

SpecRun == InitRun /\ [][NextRun]_vars

-----------------------------------------------------------------------------
(* DsFile::command_from_keys for a key path, then Command::resolve_root for *)
(* the command and the parents it returned.                                 *)

RootDocNames == {"roots", "scoped"}

RootTokens == {"app", "build", "dev", "g1", "g2", "leaf"}

InitRoot ==
    /\ pc = "rr_call"
    /\ \E n \in RootDocNames, keys \in SeqsUpTo(RootTokens, MaxLevels) :
          rr_args = [file |-> [doc |-> n, path |-> <<"/", "repo", "ds.json">>],
                     keys |-> keys]
    /\ rr_res = None
    /\ DsIdle
    /\ FcIdle
    /\ EnvIdle
    /\ MeIdle
    /\ ScIdle
    /\ WkIdle
    /\ AlIdle
    /\ RmIdle
    /\ TwIdle
    /\ IvIdle
    /\ TuiIdle

\* file.command_from_keys(keys)
CommandFromKeys ==
    /\ pc = "rr_call"
    /\ rr_res' = Some([command |-> command_from_keys(rr_args.file, rr_args.keys)])
    /\ pc' = IF unwrap(rr_res').command.ok THEN "rr_resolved" ELSE "rr_failed"
    /\ UNCHANGED rr_args
    /\ UNCHANGED <<self_config, disk, self_current_dir, self_git_root, self_paths, args_str,
                   self_ds_files, mc_matches, mc_i, mc_last, mc_res, cm_res, fc_args, fc_res>>
    /\ UNCHANGED <<env_args, env_res, me_args, me_res>>
    /\ UNCHANGED <<sc_args, sc_res>>
    /\ UNCHANGED <<wk_args, wk_res>>
    /\ UNCHANGED <<al_args, al_res>>
    /\ UNCHANGED <<rm_args, rm_res>>
    /\ UNCHANGED <<tw_first, tw_cache>>
    /\ UNCHANGED <<iv_children, iv_run>>
    /\ UNCHANGED <<tui_app, tui_res>>

\* command.resolve_root(&parents)
ResolveRoot ==
    /\ pc = "rr_resolved"
    /\ rr_res' = Some([command |-> unwrap(rr_res).command,
                       root |-> resolve_root(
                           node_at(group_of(rr_args.file),
                                   unwrap(rr_res).command.val.command),
                           deref(group_of(rr_args.file),
                                 unwrap(rr_res).command.val.parents))])
    /\ pc' = "rr_done"
    /\ UNCHANGED rr_args
    /\ UNCHANGED <<self_config, disk, self_current_dir, self_git_root, self_paths, args_str,
                   self_ds_files, mc_matches, mc_i, mc_last, mc_res, cm_res, fc_args, fc_res>>
    /\ UNCHANGED <<env_args, env_res, me_args, me_res>>
    /\ UNCHANGED <<sc_args, sc_res>>
    /\ UNCHANGED <<wk_args, wk_res>>
    /\ UNCHANGED <<al_args, al_res>>
    /\ UNCHANGED <<rm_args, rm_res>>
    /\ UNCHANGED <<tw_first, tw_cache>>
    /\ UNCHANGED <<iv_children, iv_run>>
    /\ UNCHANGED <<tui_app, tui_res>>

NextRoot == CommandFromKeys \/ ResolveRoot

SpecRoot == InitRoot /\ [][NextRoot]_vars

-----------------------------------------------------------------------------
(* Two resolutions of one command line by one DoSomething: match_command    *)
(* and command_from_match, then both again with the files loaded so far.    *)

InitTwice ==
    /\ Init
    /\ self_current_dir = <<"/", "repo">>
    /\ IvIdle
    /\ TuiIdle

\* the first resolution is over; the second starts on the same DoSomething
ResolveAgain ==
    /\ pc \in {"resolved", "failed"}
    /\ tw_first = None
    /\ tw_first' = Some([match |-> mc_res, command |-> cm_res])
    /\ tw_cache' = self_ds_files
    /\ mc_matches' = <<>>
    /\ mc_i' = 1
    /\ mc_last' = None
    /\ mc_res' = None
    /\ cm_res' = None
    /\ pc' = "match_command"
    /\ UNCHANGED <<self_config, disk, self_current_dir, self_git_root, self_paths, args_str,
                   self_ds_files>>
    /\ UNCHANGED <<fc_args, fc_res, env_args, env_res, me_args, me_res>>
    /\ UNCHANGED <<sc_args, sc_res>>
    /\ UNCHANGED <<wk_args, wk_res>>
    /\ UNCHANGED <<al_args, al_res>>
    /\ UNCHANGED <<rm_args, rm_res>>
    /\ UNCHANGED <<rr_args, rr_res>>
    /\ UNCHANGED <<tui_app, tui_res>>
    /\ UNCHANGED <<iv_children, iv_run>>

NextTwice == MatchCommandFile \/ MatchCommandEnd \/ CommandFromMatch \/ ResolveAgain

SpecTwice == InitTwice /\ [][NextTwice]_vars

-----------------------------------------------------------------------------
(* One invocation of run_match to its end: the runner, the picker for a    *)
(* help target, the child of DoSomething::run and the exit of the process. *)

\* DoSomething::run_help_row after command_from_help_row returned c
run_help_row_resolved(file, row, c) ==
    IF ~c.ok THEN c
    ELSE runner(node_at(group_of(file), c.val.command), deref(group_of(file), c.val.parents),
                IF is_some(row.env) THEN <<unwrap(row.env)>> ELSE <<>>)

\* DoSomething::run_help_row up to `let runner = ..?`
run_help_row(file, row) == run_help_row_resolved(file, row, command_from_keys(file, row.key))

\* a plausible slip: a child without an exit code counts as a success
exit_code_or_zero(status) == IF is_some(status) THEN unwrap(status) ELSE 0

\* `status.code().unwrap_or(1)`
exit_code(status) == IF is_some(status) THEN unwrap(status) ELSE 1

\* the exit codes a child may end with; None is a child ended by a signal
ChildCodes == {Some(0), Some(2), None}

\* what std::process::Command::spawn and Child::wait may answer
SpawnResults == {Ok("child"), Err("spawn failed")}

WaitResults == {Ok(code) : code \in ChildCodes} \cup {Err("wait failed")}

\* what run_tui may answer for the rows shown: no row, one of the rows, or an
\* error of the terminal
TuiResults(rows) ==
    {Ok(None), Err("terminal error")} \cup {Ok(Some(rows[i])) : i \in 1..Len(rows)}

InitInvoke ==
    /\ pc = "iv_call"
    /\ \E n \in RunDocNames, line \in CommandLines :
          rm_args = [file |-> [doc |-> n, path |-> <<"/", "repo", "ds.json">>],
                     on_conflict |-> "Override",
                     args_str |-> line,
                     current_dir |-> <<"/", "repo">>,
                     git_root |-> Some(<<"/", "repo">>)]
    /\ rm_res = None
    /\ iv_children = <<>>
    /\ iv_run = [runner |-> None, row |-> None, status |-> None, exit |-> None]
    /\ DsIdle
    /\ FcIdle
    /\ EnvIdle
    /\ MeIdle
    /\ ScIdle
    /\ WkIdle
    /\ AlIdle
    /\ RrIdle
    /\ TwIdle
    /\ TuiIdle

\* what an action of the invocation leaves alone
InvokeFrame ==
    /\ UNCHANGED rm_args
    /\ UNCHANGED <<self_config, disk, self_current_dir, self_git_root, self_paths, args_str,
                   self_ds_files, mc_matches, mc_i, mc_last, mc_res, cm_res, fc_args, fc_res>>
    /\ UNCHANGED <<env_args, env_res, me_args, me_res>>
    /\ UNCHANGED <<sc_args, sc_res>>
    /\ UNCHANGED <<wk_args, wk_res>>
    /\ UNCHANGED <<al_args, al_res>>
    /\ UNCHANGED <<rr_args, rr_res>>
    /\ UNCHANGED <<tw_first, tw_cache>>

\* run_match after `let runner = ..` was evaluated to r.runner: an error is
\* returned, a command goes to run, help goes to the picker
RunMatchRunner(r) ==
    /\ rm_res' = Some(r)
    /\ iv_run' = [iv_run EXCEPT
                     !.runner = IF r.runner.ok THEN Some(r.runner.val) ELSE @,
                     !.exit = IF r.runner.ok THEN @ ELSE Some(r.runner)]
    /\ pc' = IF ~r.runner.ok THEN "iv_returned"
             ELSE IF r.runner.val.kind = "Command" THEN "iv_run"
             ELSE "iv_help"

\* run_match(args_str) up to `match runner`
RunMatchInvoked ==
    /\ pc = "iv_call"
    /\ RunMatchRunner(run_matched(rm_args.file, rm_args.args_str,
                                  match_command_one(rm_args.on_conflict,
                                      matches(rm_args.file, rm_args.args_str,
                                              rm_args.current_dir, rm_args.git_root))))
    /\ UNCHANGED iv_children
    /\ InvokeFrame
    /\ UNCHANGED <<tui_app, tui_res>>

\* the Runner::Help arm after help_rows_for_match returned rows: run_tui
\* answers t
RunTuiRows(rows) ==
    IF ~rows.ok
    THEN /\ iv_run' = [iv_run EXCEPT !.exit = Some(rows)]
         /\ pc' = "iv_returned"
    ELSE \E t \in TuiResults(rows.val) :
            IF ~t.ok
            THEN /\ iv_run' = [iv_run EXCEPT !.exit = Some(t)]
                 /\ pc' = "iv_returned"
            ELSE /\ iv_run' = [iv_run EXCEPT !.row = t.val, !.runner = None]
                 /\ pc' = "iv_help_row"

\* the Runner::Help arm of run_match up to `self.run_help_row(row)?`
RunTui ==
    /\ pc = "iv_help"
    /\ RunTuiRows(help_rows_for_match(rm_args.file, unwrap(rm_res).match.val,
                                      rm_args.current_dir, rm_args.git_root))
    /\ UNCHANGED <<rm_res, iv_children>>
    /\ InvokeFrame
    /\ UNCHANGED <<tui_app, tui_res>>

\* run_help_row after `let runner = ..` was evaluated to r: an error is
\* returned, a command goes to run, and for help run does nothing and
\* run_match ends with std::process::exit(0)
RunHelpRowRunner(r) ==
    /\ iv_run' = [iv_run EXCEPT
                     !.runner = IF r.ok THEN Some(r.val) ELSE @,
                     !.exit = IF ~r.ok THEN Some(r)
                              ELSE IF r.val.kind = "Command" THEN @
                              ELSE Some(Ok(0))]
    /\ pc' = IF ~r.ok THEN "iv_returned"
             ELSE IF r.val.kind = "Command" THEN "iv_run"
             ELSE "iv_exited"

\* DoSomething::run_help_row(row), then the std::process::exit(0) of run_match
RunHelpRow ==
    /\ pc = "iv_help_row"
    /\ IF is_some(iv_run.row)
       THEN RunHelpRowRunner(run_help_row(rm_args.file, unwrap(iv_run.row)))
       ELSE /\ iv_run' = [iv_run EXCEPT !.exit = Some(Ok(0))]
            /\ pc' = "iv_exited"
    /\ UNCHANGED <<rm_res, iv_children>>
    /\ InvokeFrame
    /\ UNCHANGED <<tui_app, tui_res>>

\* DoSomething::run for Runner::Command: `command.spawn()?`
RunSpawn ==
    /\ pc = "iv_run"
    /\ \E spawned \in SpawnResults :
          IF spawned.ok
          THEN /\ iv_children' = Append(iv_children, unwrap(iv_run.runner).command_str)
               /\ pc' = "iv_wait"
               /\ UNCHANGED iv_run
          ELSE /\ iv_run' = [iv_run EXCEPT !.exit = Some(spawned)]
               /\ pc' = "iv_returned"
               /\ UNCHANGED iv_children
    /\ UNCHANGED rm_res
    /\ InvokeFrame
    /\ UNCHANGED <<tui_app, tui_res>>

\* DoSomething::run: `.wait()?` and std::process::exit(status.code().unwrap_or(1))
RunWait ==
    /\ pc = "iv_wait"
    /\ \E status \in WaitResults :
          IF status.ok
          THEN /\ iv_run' = [iv_run EXCEPT !.status = Some(status.val),
                                           !.exit = Some(Ok(exit_code(status.val)))]
               /\ pc' = "iv_exited"
          ELSE /\ iv_run' = [iv_run EXCEPT !.exit = Some(status)]
               /\ pc' = "iv_returned"
    /\ UNCHANGED <<rm_res, iv_children>>
    /\ InvokeFrame
    /\ UNCHANGED <<tui_app, tui_res>>

NextInvoke == RunMatchInvoked \/ RunTui \/ RunHelpRow \/ RunSpawn \/ RunWait

SpecInvoke == InitInvoke /\ [][NextInvoke]_vars

-----------------------------------------------------------------------------
(* The picker, src/src/tui.rs: App::run from its first two selections on,  *)
(* one action per key event, each followed by the draw of the next turn of *)
(* the loop.  The selection is a usize; the width is narrowed to UsizeBits *)
(* bits, far above every list length explored.                             *)

UsizeBits == 16

UsizeMax == 2 ^ UsizeBits - 1

\* the longest search text typed
MaxSearch == 2

\* usize subtraction as a build without overflow checks computes it
wrapping_sub(a, b) == (a - b) % (2 ^ UsizeBits)

saturating_add(a, b) == IF a + b > UsizeMax THEN UsizeMax ELSE a + b

saturating_sub(a, b) == IF a < b THEN 0 ELSE a - b

\* the rows of the explored help groups
RowA == [key |-> <<"app", "build">>, env |-> None]

RowB == [key |-> <<"app", "dev">>, env |-> Some("(dev)")]

RowC == [key |-> <<"build">>, env |-> None]

\* the group lists run_tui is given: none, a group without rows, one group, two
TuiGroups ==
    {<<>>, <<<<>>>>, <<<<RowA, RowB>>>>, <<<<RowA>>, <<RowB, RowC>>>>}

\* the rows injected into nucleo, see create_nucleo
RECURSIVE injected(_)
injected(groups) ==
    IF groups = <<>> THEN {}
    ELSE {Head(groups)[i] : i \in 1..Len(Head(groups))} \cup injected(Tail(groups))

\* what update_filtered_items may find in the snapshot for a pattern: rows
\* among the injected ones, each once, in the order of the matcher
Snapshots(groups) ==
    {m \in SeqsUpTo(injected(groups), 2) : \A i, j \in 1..Len(m) : m[i] = m[j] => i = j}

\* the lines of a group in the list: the header, then the rows
group_items(rows) ==
    <<[header |-> TRUE, row |-> None]>> \o
        [i \in 1..Len(rows) |-> [header |-> FALSE, row |-> Some(rows[i])]]

RECURSIVE groups_items(_)
groups_items(groups) ==
    IF groups = <<>> THEN <<>> ELSE group_items(Head(groups)) \o groups_items(Tail(groups))

\* the items render_list builds
render_items(app) ==
    IF app.search = <<>> THEN groups_items(rev(app.groups))
    ELSE [i \in 1..Len(app.matches) |-> [header |-> FALSE, row |-> Some(app.matches[i])]]

\* StatefulWidget::render of the List: no selection in an empty list, a
\* selection beyond the last item is moved to the last item
render_list(app) ==
    IF render_items(app) = <<>> THEN [app EXCEPT !.selected = None]
    ELSE IF is_some(app.selected) /\ unwrap(app.selected) >= Len(render_items(app))
    THEN [app EXCEPT !.selected = Some(saturating_sub(Len(render_items(app)), 1))]
    ELSE app

\* the sum of the loop of get_max_index: a header and the rows, per group
RECURSIVE count_items(_)
count_items(groups) ==
    IF groups = <<>> THEN 0 ELSE 1 + Len(Head(groups)) + count_items(Tail(groups))

\* the minuend of the `- 1` of get_max_index
max_index_len(app) ==
    IF app.search # <<>> THEN Len(app.matches) ELSE count_items(rev(app.groups))

\* a plausible slip: the subtraction saturates at zero
get_max_index_saturating(app) ==
    [val |-> saturating_sub(max_index_len(app), 1), underflow |-> FALSE]

\* App::get_max_index: the value a build without overflow checks computes,
\* and whether the subtraction went below zero
get_max_index(app) ==
    [val |-> wrapping_sub(max_index_len(app), 1), underflow |-> max_index_len(app) = 0]

\* App::select_first, select_last, select_none and the two of ListState
select_first(app) == [app EXCEPT !.selected = Some(0)]

select_last(app) == [app EXCEPT !.selected = Some(UsizeMax)]

select_none(app) == [app EXCEPT !.selected = None]

list_select_next(app) ==
    [app EXCEPT !.selected = Some(IF is_some(@) THEN saturating_add(unwrap(@), 1) ELSE 0)]

list_select_previous(app) ==
    [app EXCEPT !.selected =
        Some(IF is_some(@) THEN saturating_sub(unwrap(@), 1) ELSE UsizeMax)]

\* App::select_next once get_max_index was evaluated to max: a subtraction
\* below zero panics in a build with overflow checks
select_next_max(app, max) ==
    IF max.underflow /\ app.overflow_checks
    THEN [app EXCEPT !.panicked = TRUE, !.underflow = TRUE]
    ELSE IF unwrap(app.selected) = max.val
    THEN select_first([app EXCEPT !.underflow = @ \/ max.underflow])
    ELSE list_select_next([app EXCEPT !.underflow = @ \/ max.underflow])

\* App::select_next
select_next(app) ==
    IF is_some(app.selected) THEN select_next_max(app, get_max_index(app))
    ELSE list_select_next(app)

\* App::select_previous
select_previous(app) ==
    IF is_some(app.selected) /\ unwrap(app.selected) = 0 THEN select_last(app)
    ELSE list_select_previous(app)

\* the loop of the Enter arm over a group's rows, from row j on
RECURSIVE enter_rows(_, _, _, _)
enter_rows(rows, j, index, selected) ==
    IF j > Len(rows) THEN [row |-> None, index |-> index]
    ELSE IF index = selected THEN [row |-> Some(rows[j]), index |-> index]
    ELSE enter_rows(rows, j + 1, index + 1, selected)

\* the loop of the Enter arm over the groups: the row at the selected index,
\* None for a header line or an index beyond the list
RECURSIVE enter_groups(_, _, _)
enter_groups(groups, index, selected) ==
    IF groups = <<>> THEN None
    ELSE IF index = selected THEN None
    ELSE LET r == enter_rows(Head(groups), 1, index + 1, selected)
         IN  IF is_some(r.row) THEN r.row
             ELSE enter_groups(Tail(groups), r.index, selected)

\* the Enter arm: the row to return, None to stay in the loop
enter(app) ==
    IF ~is_some(app.selected) THEN None
    ELSE IF app.search # <<>>
    THEN IF unwrap(app.selected) < Len(app.matches)
         THEN Some(app.matches[unwrap(app.selected) + 1]) ELSE None
    ELSE enter_groups(rev(app.groups), 0, unwrap(app.selected))

\* the `_` arm after handle_event changed the text: a non-empty text is
\* matched anew and the first match selected
searched(app, search, snapshot) ==
    IF search # <<>>
    THEN select_first([app EXCEPT !.search = search, !.matches = snapshot])
    ELSE [app EXCEPT !.search = search]

\* what a key handler leaves alone
TuiFrame ==
    /\ UNCHANGED <<self_config, disk, self_current_dir, self_git_root, self_paths, args_str,
                   self_ds_files, mc_matches, mc_i, mc_last, mc_res, cm_res, fc_args, fc_res>>
    /\ UNCHANGED <<env_args, env_res, me_args, me_res>>
    /\ UNCHANGED <<sc_args, sc_res>>
    /\ UNCHANGED <<wk_args, wk_res>>
    /\ UNCHANGED <<al_args, al_res>>
    /\ UNCHANGED <<rm_args, rm_res>>
    /\ UNCHANGED <<rr_args, rr_res>>
    /\ UNCHANGED <<tw_first, tw_cache>>
    /\ UNCHANGED <<iv_children, iv_run>>

\* run_tui: the App as constructed, in a build with or without overflow checks
InitTui ==
    /\ pc = "tui_start"
    /\ \E groups \in TuiGroups, overflow_checks \in BOOLEAN :
          tui_app = [groups |-> groups, search |-> <<>>, matches |-> <<>>, selected |-> None,
                     overflow_checks |-> overflow_checks, panicked |-> FALSE,
                     underflow |-> FALSE, key |-> "none"]
    /\ tui_res = None
    /\ DsIdle
    /\ FcIdle
    /\ EnvIdle
    /\ MeIdle
    /\ ScIdle
    /\ WkIdle
    /\ AlIdle
    /\ RmIdle
    /\ RrIdle
    /\ TwIdle
    /\ IvIdle

\* the App after a handler, drawn for the next turn unless the handler panicked
Drawn(app, key) ==
    /\ tui_app' = IF app.panicked THEN [app EXCEPT !.key = key]
                  ELSE render_list([app EXCEPT !.key = key])
    /\ pc' = IF app.panicked THEN "tui_panicked" ELSE "tui_loop"
    /\ UNCHANGED tui_res

\* App::run before the loop: select_first, select_next, then the first draw
TuiStart ==
    /\ pc = "tui_start"
    /\ Drawn(select_next(select_first(tui_app)), "start")
    /\ TuiFrame

KeyDown ==
    /\ pc = "tui_loop"
    /\ Drawn(select_next(tui_app), "Down")
    /\ TuiFrame

KeyUp ==
    /\ pc = "tui_loop"
    /\ Drawn(select_previous(tui_app), "Up")
    /\ TuiFrame

KeyHome ==
    /\ pc = "tui_loop"
    /\ Drawn(select_first(tui_app), "Home")
    /\ TuiFrame

KeyEnd ==
    /\ pc = "tui_loop"
    /\ Drawn(select_last(tui_app), "End")
    /\ TuiFrame

KeyLeft ==
    /\ pc = "tui_loop"
    /\ Drawn(select_none(tui_app), "Left")
    /\ TuiFrame

\* Esc, or c with Control
KeyEsc ==
    /\ pc = "tui_loop"
    /\ tui_res' = Some(Ok(None))
    /\ tui_app' = [tui_app EXCEPT !.key = "Esc"]
    /\ pc' = "tui_returned"
    /\ TuiFrame

KeyEnter ==
    /\ pc = "tui_loop"
    /\ IF is_some(enter(tui_app))
       THEN /\ tui_res' = Some(Ok(enter(tui_app)))
            /\ tui_app' = [tui_app EXCEPT !.key = "Enter"]
            /\ pc' = "tui_returned"
       ELSE Drawn(tui_app, "Enter")
    /\ TuiFrame

\* a character is typed into the search text
KeyChar ==
    /\ pc = "tui_loop"
    /\ Len(tui_app.search) < MaxSearch
    /\ \E c \in {"b", "z"}, snapshot \in Snapshots(tui_app.groups) :
          Drawn(searched(tui_app, Append(tui_app.search, c), snapshot), "Char")
    /\ TuiFrame

\* the last character of the search text is deleted
KeyBackspace ==
    /\ pc = "tui_loop"
    /\ tui_app.search # <<>>
    /\ \E snapshot \in Snapshots(tui_app.groups) :
          Drawn(searched(tui_app, pop(tui_app.search), snapshot), "Backspace")
    /\ TuiFrame

NextTui ==
    \/ TuiStart
    \/ KeyDown
    \/ KeyUp
    \/ KeyHome
    \/ KeyEnd
    \/ KeyLeft
    \/ KeyEsc
    \/ KeyEnter
    \/ KeyChar
    \/ KeyBackspace

SpecTui == InitTui /\ [][NextTui]_vars

-----------------------------------------------------------------------------
(* C1 *)

\* the number of consecutive leading target tokens that are members of the
\* accepted set at the same position
LeadingMembers(alias_keys, target) ==
    CHOOSE n \in 0..Min(Len(alias_keys), Len(target)) :
        /\ \A i \in 1..n : \E j \in 1..Len(alias_keys[i]) : alias_keys[i][j] = target[i]
        /\ \/ n = Min(Len(alias_keys), Len(target))
           \/ \A j \in 1..Len(alias_keys[n + 1]) : alias_keys[n + 1][j] # target[n + 1]

\* C1: from_command returns a Match iff the count of consecutive leading
\* target tokens accepted at their position is at least 1 and equals the number
\* of levels; the score of the Match is that count, and the tokens beyond the
\* node's levels neither prevent the match nor change the score.
C1_ExactModeScore ==
    pc = "fc_done" =>
        LET ak == fc_args.alias_keys
            t == fc_args.target
            n == LeadingMembers(ak, t)
            cut == SubSeq(t, 1, Min(Len(t), Len(ak)))
        IN  /\ is_some(fc_res) <=> (n >= 1 /\ n = Len(ak))
            /\ is_some(fc_res) =>
                   /\ unwrap(fc_res).score = n
                   /\ unwrap(fc_res).keys = CanonicalKeys(ak)
            /\ fc_res = from_command(<<"ds.json">>, CanonicalKeys(ak), ak, cut)

\* a two-level node matched through an alias by a target with an extra token
C1_Witness ==
    /\ pc = "fc_done"
    /\ Len(fc_args.alias_keys) = 2
    /\ Len(fc_args.target) = 3
    /\ fc_args.target[1] # fc_args.alias_keys[1][1]
    /\ is_some(fc_res)
    /\ unwrap(fc_res).score = 2

-----------------------------------------------------------------------------------------------------------------------------------------------------
(* What the sources of one invocation hold, computed apart from the loop   *)
(* of match_command.                                                       *)

\* one of the three parts of the module is running: this one is the pipeline
InPipeline == pc \in {"match_command", "command_from_match", "resolved", "failed"}

\* the matches of the j-th discovered file for the command line
SourceMatches(j) ==
    IF from_file(disk, self_paths[j]).ok
    THEN matches(from_file(disk, self_paths[j]).val, args_str, self_current_dir,
                 self_git_root)
    ELSE from_file(disk, self_paths[j])

\* what every discovered file yields, in discovery order
Sources == [j \in 1..Len(self_paths) |-> SourceMatches(j)]

\* the j-th source loads, is walked without error and matches the command line
Produces(src, j) == src[j].ok /\ src[j].val # <<>>

\* match_command has returned
Returned == is_some(mc_res)

Succeeded == is_some(mc_res) /\ unwrap(mc_res).ok

\* the index of a discovered path
PathIndex(path) == CHOOSE j \in 1..Len(self_paths) : self_paths[j] = path

-----------------------------------------------------------------------------
(* C2 *)

\* the loop never goes past the first source that produces a match and loads
\* no source after it; a returned match is one of that source's
StopsAtFirstSource(src) ==
    /\ \A j \in 1..Len(src) :
          (\E h \in 1..(j - 1) : Produces(src, h)) =>
              /\ self_paths[j] \notin DOMAIN self_ds_files
              /\ mc_i < j
    /\ Succeeded =>
          \E j \in 1..Len(src) :
              /\ Produces(src, j)
              /\ \A h \in 1..(j - 1) : ~Produces(src, h)
              /\ unwrap(mc_res).val.file_path = self_paths[j]
              /\ contains(src[j].val, unwrap(mc_res).val)
    /\ (Returned /\ \E j \in 1..Len(src) :
                        /\ Produces(src, j)
                        /\ \A h \in 1..(j - 1) : src[h].ok) => Succeeded

\* C2: under Override, match_command stops at the first source, in the order
\* of the paths, that produces one or more matches: a returned match is one of
\* the matches of that source, the loop never goes past it, and no source after
\* it is ever loaded.  (The index of the loop and the set of loaded files only
\* grow, so the states after the return tell what was examined and loaded.)
C2_OverrideStopsAtFirstSource ==
    (InPipeline /\ self_config.on_conflict = "Override" /\ Returned) =>
        StopsAtFirstSource(Sources)

\* a match was returned from the first file while the second file, which also
\* matches the command line, was never loaded
C2_Witness ==
    /\ pc = "resolved"
    /\ self_config.on_conflict = "Override"
    /\ Len(self_paths) = 2
    /\ Produces(Sources, 1)
    /\ Produces(Sources, 2)
    /\ unwrap(mc_res).val.file_path = self_paths[1]
    /\ self_paths[2] \notin DOMAIN self_ds_files

-----------------------------------------------------------------------------
(* C3 *)

\* the number of matches of the sources 1..k, all of them free of errors
RECURSIVE TotalMatches(_, _)
TotalMatches(src, k) ==
    IF k = 0 THEN 0 ELSE TotalMatches(src, k - 1) + Len(src[k].val)

\* the sources 1..k load and are walked without error
AllOk(src, k) == \A j \in 1..k : src[j].ok

\* k is the first source at which the running total exceeds one
Exceeds(src, k) ==
    AllOk(src, k) /\ TotalMatches(src, k) > 1 /\ TotalMatches(src, k - 1) <= 1

ConflictError == Err("Conflict detected in group")

\* the conflict error is returned exactly at the first source where the
\* running total exceeds one; a total of one over all sources is returned
ConflictAtSecondMatch(src) ==
    /\ (Returned /\ unwrap(mc_res) = ConflictError) <=>
          \E k \in 1..Len(src) : Exceeds(src, k) /\ mc_i = k /\ Returned
    /\ (\E k \in 1..Len(src) : Exceeds(src, k)) => mc_i <= Len(src)
    /\ (\E k \in 1..Len(src) : Exceeds(src, k) /\ mc_i = k /\ pc # "match_command")
          => unwrap(mc_res) = ConflictError
    /\ (Returned /\ AllOk(src, Len(src)) /\ TotalMatches(src, Len(src)) = 1) =>
          /\ Succeeded
          /\ \E j \in 1..Len(src) : src[j].val = <<unwrap(mc_res).val>>
    /\ Succeeded => (AllOk(src, Len(src)) /\ TotalMatches(src, Len(src)) = 1)

\* C3: under Error, match_command fails with the conflict error exactly when
\* the running total of the matches of the sources examined so far exceeds one,
\* at the first source where it does; it returns the match when exactly one
\* exists across all sources; it never reports a conflict for a total of one and
\* never returns a match for a total of two or more.
C3_ErrorPolicy ==
    (InPipeline /\ self_config.on_conflict = "Error") =>
        /\ Len(mc_matches) > 1 => (Returned /\ unwrap(mc_res) = ConflictError)
        /\ Returned => ConflictAtSecondMatch(Sources)

\* two files that each hold one match for the command line: the second match
\* trips the conflict
C3_Witness ==
    /\ pc = "failed"
    /\ self_config.on_conflict = "Error"
    /\ Returned
    /\ unwrap(mc_res) = ConflictError
    /\ Len(mc_matches) = 2
    /\ mc_matches[1].file_path # mc_matches[2].file_path
    /\ mc_matches[1].keys = mc_matches[2].keys

-----------------------------------------------------------------------------
(* C4 *)

\* the j-th source holds a match for the command path of m
DefinesSame(src, j, m) ==
    /\ src[j].ok
    /\ \E i \in 1..Len(src[j].val) : src[j].val[i].keys = m.keys

\* the returned match comes from the last source that defines its path
KeepsLastFile(src) ==
    \A j \in 1..Len(src) :
        DefinesSame(src, j, unwrap(mc_res).val) =>
            j <= PathIndex(unwrap(mc_res).val.file_path)

\* C4: under Override, when several files define the matched command path, the
\* match that is kept comes from the last of these files in discovery order.
C4_OverrideKeepsLastFile ==
    (InPipeline /\ self_config.on_conflict = "Override" /\ Succeeded) =>
        KeepsLastFile(Sources)

-----
(* C5 *)

\* the position of a key in the iteration order of the maps
KeyIndex(k) == CHOOSE i \in 1..Len(KeyOrder) : KeyOrder[i] = k

\* the walker visits the node a before the node b: a is an ancestor of b, or
\* at the first level where the paths part a's key comes first
RECURSIVE VisitedBefore(_, _)
VisitedBefore(a, b) ==
    IF a = <<>> THEN b # <<>>
    ELSE IF b = <<>> THEN FALSE
    ELSE IF Head(a) = Head(b) THEN VisitedBefore(Tail(a), Tail(b))
    ELSE KeyIndex(Head(a)) < KeyIndex(Head(b))

\* one source was consulted without error and yielded several matches, and
\* nothing else was collected
SingleSourceTie ==
    /\ is_some(mc_last)
    /\ unwrap(mc_last).res.ok
    /\ Len(unwrap(mc_last).res.val) >= 2
    /\ Len(mc_matches) = Len(unwrap(mc_last).res.val)

\* the returned match is the tie the walker visited last
SelectsLastVisited ==
    /\ Succeeded
    /\ contains(unwrap(mc_last).res.val, unwrap(mc_res).val)
    /\ \A i \in 1..Len(unwrap(mc_last).res.val) :
          \/ unwrap(mc_last).res.val[i] = unwrap(mc_res).val
          \/ VisitedBefore(unwrap(mc_last).res.val[i].keys, unwrap(mc_res).val.keys)

\* C5 as stated: when one source yields several matches of equal score,
\* resolution selects the one visited last rather than failing or selecting the
\* first, whatever the policy.
C5_TieSelectsLast ==
    (SingleSourceTie /\ Returned) => SelectsLastVisited

\* C5: under the Override policy, when one source yields several matches of
\* equal (maximum) score, match_command returns the one the walker visited
\* last; under the Error policy such a tie is a conflict.
C5_OverrideTieSelectsLast ==
    (SingleSourceTie /\ Returned) =>
        /\ self_config.on_conflict = "Override" => SelectsLastVisited
        /\ self_config.on_conflict = "Error" => unwrap(mc_res) = ConflictError

\* the token a is accepted by the command a and, as an alias, by its later
\* sibling build: the sibling is selected
C5_Witness ==
    /\ pc = "resolved"
    /\ self_config.on_conflict = "Override"
    /\ SingleSourceTie
    /\ args_str = <<"a">>
    /\ unwrap(mc_res).val.keys = <<"build">>
    /\ unwrap(mc_last).res.val[1].keys = <<"a">>

-----------------------------------------------------------------------------
(* C6 *)

\* the key paths of the nodes below a node
RECURSIVE PathsBelow(_)
PathsBelow(node) ==
    IF node.kind = "Group"
    THEN UNION {{<<k>>} \cup {<<k>> \o q : q \in PathsBelow(node.commands[k])} :
                   k \in DOMAIN node.commands}
    ELSE {}

\* the groups above the node at a key path, the top-level group first
Ancestors(path) == [i \in 1..Len(path) |-> SubSeq(path, 1, i - 1)]

InScope(root, path) ==
    is_in_scope(node_at(root, path), self_current_dir, self_git_root) = Ok(TRUE)

\* the walker reaches a node when its ancestors below the top are in scope; the
\* node is a candidate when it is in scope itself
Candidate(root, path) == \A i \in 1..Len(path) : InScope(root, SubSeq(path, 1, i))

\* the score of a node for the command line, 0 when from_command gives None
Score(root, file_path, path) ==
    IF is_some(from_command(file_path, path,
                            resolve_aliases(node_at(root, path), path,
                                            deref(root, Ancestors(path))),
                            args_str))
    THEN score_loop(resolve_aliases(node_at(root, path), path,
                                    deref(root, Ancestors(path))),
                    args_str, 1, 0)
    ELSE 0

\* the candidates whose score is non-zero and maximal, given the score of
\* every candidate
Maxima(file_path, score) ==
    {[file_path |-> file_path, score |-> score[q], keys |-> q] :
        q \in {c \in DOMAIN score :
                  score[c] > 0 /\ \A o \in DOMAIN score : score[o] <= score[c]}}

\* what DsFile::matches is to return for the tree root of the file file_path
Expected(root, file_path) ==
    Maxima(file_path, [q \in {c \in PathsBelow(root) : Candidate(root, c)} |->
                          Score(root, file_path, q)])

\* the returned matches as a set
AsSet(ms) == {ms[i] : i \in 1..Len(ms)}

\* C6: DsFile::matches returns exactly the in-scope visited nodes whose score
\* is non-zero and equal to the maximum score of the source, each once: none
\* with score 0, none below another candidate, every tie at the maximum.
C6_MatchesAreTheMaxima ==
    (is_some(mc_last) /\ unwrap(mc_last).res.ok) =>
        /\ AsSet(unwrap(mc_last).res.val) =
              Expected(Documents[disk[unwrap(mc_last).path]], unwrap(mc_last).path)
        /\ Len(unwrap(mc_last).res.val) = Cardinality(AsSet(unwrap(mc_last).res.val))
        /\ \A i \in 1..Len(unwrap(mc_last).res.val) :
              unwrap(mc_last).res.val[i].score > 0

\* app build: the group app scores 1, its command build scores 2 and is the
\* only match returned
C6_Witness ==
    /\ is_some(mc_last)
    /\ unwrap(mc_last).res.ok
    /\ disk[unwrap(mc_last).path] = "full"
    /\ args_str = <<"app", "build">>
    /\ Len(unwrap(mc_last).res.val) = 1
    /\ unwrap(mc_last).res.val[1].score = 2
    /\ Score(Documents["full"], unwrap(mc_last).path, <<"app">>) = 1

-----------------------------------------------------------------------------
(* C7 *)

\* command_from_match has returned a command and its parents
Resolved == pc = "resolved" /\ is_some(cm_res) /\ unwrap(cm_res).ok

\* the tree of the file the returned match names
MatchRoot == Documents[disk[unwrap(mc_res).val.file_path]]

\* the group at a key path has a default naming a sub-group whose default
\* names a command that is not a group
DefaultChainOfTwo(root, g) ==
    /\ node_at(root, g).kind = "Group"
    /\ node_at(root, g).default \in DOMAIN node_at(root, g).commands
    /\ LET g2 == Append(g, node_at(root, g).default)
       IN  /\ node_at(root, g2).kind = "Group"
           /\ node_at(root, g2).default \in DOMAIN node_at(root, g2).commands
           /\ node_at(root, Append(g2, node_at(root, g2).default)).kind # "Group"

\* C7: when the matched group g1 has a default naming a sub-group g2 whose
\* default names a leaf, resolving [g1] returns the leaf together with the
\* ancestor chain [root, g1, g2]: every group from the document root down to
\* the leaf's parent, each once and in order.
C7_DefaultChainAncestors ==
    (Resolved /\ Len(unwrap(mc_res).val.keys) = 1
        /\ DefaultChainOfTwo(MatchRoot, unwrap(mc_res).val.keys)) =>
        /\ Len(unwrap(cm_res).val.command) = 3
        /\ node_at(MatchRoot, unwrap(cm_res).val.command).kind # "Group"
        /\ unwrap(cm_res).val.parents = Ancestors(unwrap(cm_res).val.command)

-----------------------------------------------------------------------------
(* C8 *)

\* the node of the document text at a key path
JsonRoot == Json[disk[unwrap(mc_res).val.file_path]]

\* C8: a group whose configuration gives no `default` key has no default
\* command: resolving a target to it yields the group itself (the show-help
\* outcome) and never a runnable command, whatever its commands map holds.
C8_NoDefaultKeyShowsHelp ==
    (Resolved /\ node_at(JsonRoot, unwrap(mc_res).val.keys).kind = "Group"
        /\ is_none(node_at(JsonRoot, unwrap(mc_res).val.keys).default)) =>
        /\ unwrap(cm_res).val.command = unwrap(mc_res).val.keys
        /\ node_at(MatchRoot, unwrap(cm_res).val.command).kind = "Group"

-----------------------------------------------------------------------------
(* C9 *)

\* following the defaults from the group at g ends at a group whose default
\* names no entry of its own commands
RECURSIVE EndsDangling(_, _)
EndsDangling(root, g) ==
    /\ node_at(root, g).kind = "Group"
    /\ \/ node_at(root, g).default \notin DOMAIN node_at(root, g).commands
       \/ EndsDangling(root, Append(g, node_at(root, g).default))

\* the groups a dangling chain from g passes before its last group
RECURSIVE ChainLength(_, _)
ChainLength(root, g) ==
    IF node_at(root, g).default \notin DOMAIN node_at(root, g).commands THEN 0
    ELSE 1 + ChainLength(root, Append(g, node_at(root, g).default))

\* C9: a default that names no entry of the group's commands is treated as no
\* default, at any depth of a chain of defaults: resolve_default returns the
\* group it was called on, and command_from_match returns that group without
\* an error.
C9_DanglingDefaultIsNoDefault ==
    (pc \in {"resolved", "failed"} /\ is_some(cm_res)) =>
        /\ EndsDangling(MatchRoot, unwrap(mc_res).val.keys) =>
              /\ unwrap(cm_res).ok
              /\ unwrap(cm_res).val.command = unwrap(mc_res).val.keys
        /\ \A g \in PathsBelow(MatchRoot) :
              EndsDangling(MatchRoot, g) =>
                  /\ resolve_default(MatchRoot, g, None).command = g
                  /\ resolve_default(MatchRoot, g, Some(<<g>>)).command = g

\* g1 was matched; its default g2 is a group whose default names no entry
C9_Witness ==
    /\ Resolved
    /\ EndsDangling(MatchRoot, unwrap(mc_res).val.keys)
    /\ ChainLength(MatchRoot, unwrap(mc_res).val.keys) = 1
    /\ node_at(JsonRoot, unwrap(mc_res).val.keys).default = Some("g2")
    /\ unwrap(cm_res).val.command = unwrap(mc_res).val.keys

-----------------------------------------------------------------------------
(* C10 *)

\* the default_env of the nearest ancestor that defines one, from ancestor i
\* (the last is the nearest) towards the root
RECURSIVE NearestDefaultEnv(_, _)
NearestDefaultEnv(parents, i) ==
    IF i < 1 THEN None
    ELSE IF is_some(parents[i].default_env) THEN parents[i].default_env
    ELSE NearestDefaultEnv(parents, i - 1)

\* C10: resolve_envs returns the default_env of the nearest source that
\* defines one: the node's own if present, otherwise that of the closest
\* ancestor defining one, never a farther ancestor's over a nearer one's.
C10_NearestDefaultEnv ==
    pc = "env_done" =>
        unwrap(env_res).default_env =
            IF is_some(env_args.node.default_env) THEN env_args.node.default_env
            ELSE NearestDefaultEnv(env_args.parents, Len(env_args.parents))

-----------------------------------------------------------------------------
(* C11 *)

\* the names an Option<BTreeMap<String, Env>> defines
EnvNames(envs) == IF is_some(envs) THEN DOMAIN unwrap(envs) ELSE {}

\* the ancestors that define the name k, by index (the last is the nearest)
Definers(parents, k) == {i \in 1..Len(parents) : k \in EnvNames(parents[i].envs)}

\* the greatest element of a non-empty set of indices
Nearest(is) == CHOOSE i \in is : \A j \in is : j <= i

\* C11: resolve_envs merges the ancestors' environments nearest-first with
\* first-wins: a name two ancestors define holds the definition of the ancestor
\* closest to the node, a name no ancestor defines holds the node's own, and the
\* merged names are the union of the ancestors' and the node's names.
C11_NearestAncestorEnvWins ==
    pc = "env_done" =>
        /\ DOMAIN unwrap(env_res).merged =
              EnvNames(env_args.node.envs)
                  \cup UNION {EnvNames(env_args.parents[i].envs) :
                                 i \in 1..Len(env_args.parents)}
        /\ \A k \in DOMAIN unwrap(env_res).merged :
              unwrap(env_res).merged[k] =
                  IF Definers(env_args.parents, k) # {}
                  THEN unwrap(env_args.parents[Nearest(Definers(env_args.parents, k))].envs)[k]
                  ELSE unwrap(env_args.node.envs)[k]

\* A(envs = {dev}) -> B(envs = {dev, prod}, default_env = prod) -> leaf: the
\* leaf gets B's dev and the default prod
C11_Witness ==
    /\ pc = "env_done"
    /\ Len(env_args.parents) = 2
    /\ EnvNames(env_args.parents[1].envs) = {"dev"}
    /\ EnvNames(env_args.parents[2].envs) = {"dev", "prod"}
    /\ is_none(env_args.parents[1].default_env)
    /\ env_args.parents[2].default_env = Some("prod")
    /\ env_args.node.kind = "Inline"
    /\ unwrap(env_res).merged["dev"] = unwrap(env_args.parents[2].envs)["dev"]
    /\ unwrap(env_res).merged["dev"] # unwrap(env_args.parents[1].envs)["dev"]
    /\ unwrap(env_res).default_env = Some("prod")

-----------------------------------------------------------------------------
(* C12 *)

\* the first argument names a defined environment
FirstArgNamesEnv(envs, args) == args # <<>> /\ args[1] \in DOMAIN envs

\* the default names a defined environment
DefaultNamesEnv(envs, default_env) ==
    is_some(default_env) /\ unwrap(default_env) \in DOMAIN envs

\* the five cases of match_env for the map e, the default d and the args a
MatchEnvCases(e, d, a, res) ==
    /\ DOMAIN e = {} => res = Ok(None)
    /\ (DOMAIN e # {} /\ a = <<>> /\ is_none(d)) => ~res.ok
    /\ (DOMAIN e # {} /\ FirstArgNamesEnv(e, a)) =>
          res = Ok(Some(<<e[a[1]], SubSeq(a, 2, Len(a))>>))
    /\ (DOMAIN e # {} /\ ~FirstArgNamesEnv(e, a) /\ DefaultNamesEnv(e, d)) =>
          res = Ok(Some(<<e[unwrap(d)], a>>))
    /\ (DOMAIN e # {} /\ ~FirstArgNamesEnv(e, a) /\ ~DefaultNamesEnv(e, d)) => ~res.ok
    /\ (res.ok /\ is_some(res.val)) =>
          \/ unwrap(res.val)[2] = a
          \/ a # <<>> /\ unwrap(res.val)[2] = SubSeq(a, 2, Len(a))

\* C12: match_env gives None for an empty map; an error for a non-empty map
\* with no args and no default; the environment the first arg names, with the
\* args less their first; otherwise the environment a default names, with the
\* args unchanged; otherwise an error.  The remaining args are the args or the
\* args less their first token.
C12_MatchEnvCases ==
    pc = "me_done" =>
        MatchEnvCases(me_args.envs, me_args.default_env, me_args.args, unwrap(me_res))

\* prod is named by the first argument and dev by the default: prod is
\* returned and the argument consumed
C12_Witness ==
    /\ pc = "me_done"
    /\ me_args.args = <<"prod", "--extra-flag">>
    /\ me_args.default_env = Some("dev")
    /\ "prod" \in DOMAIN me_args.envs
    /\ unwrap(me_res) = Ok(Some(<<me_args.envs["prod"], <<"--extra-flag">>>>))

-----------------------------------------------------------------------------
(* C13 *)

\* the node has no root of its own
NoRoot(cmd) == cmd.kind = "Inline" \/ is_none(cmd.root)

\* the path of the node's root with the home shorthand expanded; the empty
\* path resolves to nothing
Resolvable(cmd) == NoRoot(cmd) \/ unwrap(cmd.root).path # <<>>

TargetPath(cmd) ==
    IF Head(unwrap(cmd.root).path) = "~" THEN HomeDir \o Tail(unwrap(cmd.root).path)
    ELSE unwrap(cmd.root).path

\* p lies inside the directory q
Inside(p, q) == \E k \in 0..Len(p) : SubSeq(p, 1, k) = q

\* the scope rule of a node whose root resolves
ScopeRule(cmd, current_dir, git_root) ==
    \/ NoRoot(cmd)
    \/ unwrap(cmd.root).scope = "Global"
    \/ unwrap(cmd.root).scope = "Exact" /\ current_dir = TargetPath(cmd)
    \/ /\ unwrap(cmd.root).scope = "GitRoot"
       /\ is_some(git_root)
       /\ Inside(current_dir, unwrap(git_root))
       /\ unwrap(git_root) = TargetPath(cmd)

-----------------------------------------------------------------------------
(* C14 *)

\* the tree of the file DsFile::matches was called on
AliasRoot == Documents[al_args.file.doc]

\* DsFile::matches has returned for the target
Matched == pc \in {"al_matched", "al_replaced"}

\* the walk behind the matches for the target
TargetWalk ==
    walk_commands(matches_ctx(al_args.file, al_args.target, al_args.current_dir,
                              al_args.git_root),
                  <<>>, matches_st)

\* the scope of the node at a key path where DsFile::matches was called
TargetInScope(root, path) ==
    is_in_scope(node_at(root, path), al_args.current_dir, al_args.git_root) = Ok(TRUE)

\* the nodes of a tree whose scope cannot be determined and which a walk
\* that skips the out-of-scope nodes comes to
ScopeFailures(root) ==
    {p \in PathsBelow(root) :
        /\ ~Resolvable(node_at(root, p))
        /\ \A i \in 1..(Len(p) - 1) : TargetInScope(root, SubSeq(p, 1, i))}

\* the node of a non-empty set that the walker visits first
FirstVisited(ps) == CHOOSE p \in ps : \A q \in ps : q = p \/ VisitedBefore(p, q)

\* the walk w of the tree root ends at the first scope failure, with an error
\* for that node as the result res; without a failure it ends with matches
StopsAtScopeFailure(root, w, res) ==
    IF ScopeFailures(root) = {}
    THEN res.ok /\ w.walk = "Continue"
    ELSE /\ res = Err(<<"Error determining scope for command",
                        FirstVisited(ScopeFailures(root))>>)
         /\ w.walk = "Stop"
         /\ last(w.st.calls).command = FirstVisited(ScopeFailures(root))
         /\ \A i \in 1..(Len(w.st.calls) - 1) :
               VisitedBefore(w.st.calls[i].command, FirstVisited(ScopeFailures(root)))

-----------------------------------------------------------------------------
(* C15 *)

\* the tree walked and the verdict table of the visitor
WalkRoot == Documents[wk_args.file.doc]

\* the visitor is invoked for a node when it answered Continue for every
\* group above it and Stop for no node before it
Entered(verdict, p) == \A i \in 1..(Len(p) - 1) : verdict[SubSeq(p, 1, i)] = "Continue"

StopNodes(root, verdict) ==
    {p \in command_paths(root) : Entered(verdict, p) /\ verdict[p] = "Stop"}

Invoked(root, verdict) ==
    {p \in command_paths(root) :
        /\ Entered(verdict, p)
        /\ \A s \in StopNodes(root, verdict) : ~VisitedBefore(s, p)}

\* the walk w made its calls in depth-first pre-order, each node at most
\* once, with the key path and the groups above the node as arguments
InPreOrder(calls) ==
    /\ \A i, j \in 1..Len(calls) :
          i < j => VisitedBefore(calls[i].command, calls[j].command)
    /\ \A i \in 1..Len(calls) :
          /\ calls[i].keys = calls[i].command
          /\ calls[i].parents = Ancestors(calls[i].command)

WalkProtocol(root, verdict, w) ==
    /\ InPreOrder(w.st.calls)
    /\ {w.st.calls[i].command : i \in 1..Len(w.st.calls)} = Invoked(root, verdict)
    /\ \A i \in 1..Len(w.st.calls) :
          LET p == w.st.calls[i].command
              node == node_at(root, p)
          IN  /\ (verdict[p] = "Continue" /\ node.kind = "Group"
                    /\ DOMAIN node.commands # {}) =>
                    /\ i < Len(w.st.calls)
                    /\ w.st.calls[i + 1].command =
                          Append(p, Head(iter_keys(node.commands)))
              /\ verdict[p] = "Skip" =>
                    \A j \in 1..Len(w.st.calls) :
                       ~starts_with(w.st.calls[j].command, p) \/ j = i
              /\ verdict[p] = "Stop" => i = Len(w.st.calls)
    /\ w.walk = (IF StopNodes(root, verdict) = {} THEN "Continue" ELSE "Stop")

\* C15: walk_tree visits the nodes depth-first in pre-order, each at most
\* once; after Continue on a group its children are visited next; after Skip
\* no descendant of the node is visited while its later siblings are; after
\* the first Stop the visitor is not invoked again and the walk returns Stop.
C15_WalkerProtocol ==
    (pc = "wk_done") => WalkProtocol(WalkRoot, wk_args.verdict, unwrap(wk_res))

\* a group with commands was skipped, a later sibling was visited, and a Stop
\* given inside a sub-group ended the walk before the last node of the tree
C15_Witness ==
    /\ pc = "wk_done"
    /\ unwrap(wk_res).walk = "Stop"
    /\ Len(last(unwrap(wk_res).st.calls).command) >= 2
    /\ \E p \in command_paths(WalkRoot) :
          VisitedBefore(last(unwrap(wk_res).st.calls).command, p)
    /\ \E i \in 1..(Len(unwrap(wk_res).st.calls) - 1) :
          LET p == unwrap(wk_res).st.calls[i].command
          IN  /\ wk_args.verdict[p] = "Skip"
              /\ node_at(WalkRoot, p).kind = "Group"
              /\ command_paths(node_at(WalkRoot, p)) # {}
              /\ Len(unwrap(wk_res).st.calls[i + 1].command) = Len(p)

-----------------------------------------------------------------------------
(* C16 *)

\* the matches DsFile::matches returned for the target
TargetMatches ==
    IF Matched /\ unwrap(al_res).first.ok THEN AsSet(unwrap(al_res).first.val) ELSE {}

\* the groups above a node, the top-level group left out, that are flattened
FlattenedAbove(root, path) ==
    {i \in 1..(Len(path) - 1) : node_at(root, SubSeq(path, 1, i)).mode = Some("Flattened")}

\* the levels of a node: its key path without the flattened groups above it
Levels(root, path) == Len(path) - Cardinality(FlattenedAbove(root, path))

\* C16 as stated: in exact mode no node whose depth, the length of its key
\* path from the document root, exceeds the number of target tokens is
\* returned as a match.
C16_DepthWithinTokens ==
    \A m \in TargetMatches : Len(m.keys) <= Len(al_args.target)

\* C16 as the code has it: in exact mode no node whose number of levels, the
\* length of its key path less the flattened groups above it, exceeds the
\* number of target tokens is returned as a match.
C16_LevelsWithinTokens ==
    \A m \in TargetMatches : Levels(AliasRoot, m.keys) <= Len(al_args.target)

\* app build matches the command build below the flattened group with-env:
\* a key path of three keys for two tokens
C16_Witness ==
    /\ al_args.target = <<"app", "build">>
    /\ \E m \in TargetMatches :
          /\ m.keys = <<"app", "with-env", "build">>
          /\ Levels(AliasRoot, m.keys) = 2

-----------------------------------------------------------------------------
(* C17 *)

\* the positions of a key path that make a level: the node itself and the
\* groups above it that are not flattened
LevelIndex(root, path) ==
    SelectSeq([i \in 1..Len(path) |-> i],
              LAMBDA i : i = Len(path) \/ i \notin FlattenedAbove(root, path))

\* the names a node answers to: its key and its aliases
Names(root, path) ==
    {last(path)} \cup
    (IF is_some(node_at(root, path).aliases)
     THEN {unwrap(node_at(root, path).aliases)[i] :
              i \in 1..Len(unwrap(node_at(root, path).aliases))}
     ELSE {})

\* the level sequence of a node, every level as the set of its names
LevelSets(root, path) ==
    [j \in 1..Len(resolve_aliases(node_at(root, path), path, deref(root, Ancestors(path)))) |->
        AsSet(resolve_aliases(node_at(root, path), path, deref(root, Ancestors(path)))[j])]

\* the level sequence of the node at a key path holds the names of the node
\* and of the groups above it, those of the flattened groups left out
FlattenedOmitted(root, path, index) ==
    LevelSets(root, path) = [j \in 1..Len(index) |-> Names(root, SubSeq(path, 1, index[j]))]

\* a match answers the leading tokens level by level, the flattened groups
\* passed over, while its keys are the whole key path of a node of the tree
SkipsFlattened(root, m, index) ==
    /\ m.keys \in PathsBelow(root)
    /\ m.score = Len(index)
    /\ m.score = Len(m.keys) - Cardinality(FlattenedAbove(root, m.keys))
    /\ \A j \in 1..m.score :
          al_args.target[j] \in Names(root, SubSeq(m.keys, 1, index[j]))

\* C17: the name and the aliases of a flattened group are omitted from the
\* level sequence of every descendant: a descendant matches a target that
\* skips the group's token, the score counts the non-flattened levels only,
\* and the canonical keys of the match still hold the flattened group's key.
C17_FlattenedGroupOmitted ==
    Matched =>
        /\ \A p \in PathsBelow(AliasRoot) :
              FlattenedOmitted(AliasRoot, p, LevelIndex(AliasRoot, p))
        /\ \A m \in TargetMatches :
              SkipsFlattened(AliasRoot, m, LevelIndex(AliasRoot, m.keys))

\* a build skips the token of the flattened group with-env and matches the
\* command build below it with score 2 and the group's key among the keys
C17_Witness ==
    /\ al_args.target = <<"a", "build">>
    /\ \E m \in TargetMatches :
          /\ m.score = 2
          /\ m.keys[2] = "with-env"
          /\ FlattenedAbove(AliasRoot, m.keys) = {2}
          /\ LevelSets(AliasRoot, m.keys) = <<{"app", "a"}, {"build", "b"}>>

-----------------------------------------------------------------------------
(* C18 *)

\* the token n replaces, at position j, a token of a level of the match m,
\* and is the key or an alias of that level
ReplacesByName(root, m, j, n, index) ==
    /\ j <= Len(index)
    /\ n \in Names(root, SubSeq(m.keys, 1, index[j]))

\* the match the node of m gets for a target
NodeMatch(root, m, target) ==
    from_command(m.file_path, m.keys,
                 resolve_aliases(node_at(root, m.keys), m.keys,
                                 deref(root, Ancestors(m.keys))),
                 target)

\* C18 as stated: replacing a target token by the canonical key or by any
\* alias of the same level of a matched node yields a match with identical
\* canonical keys and identical score.
C18_AliasYieldsSameMatch ==
    (pc = "al_replaced" /\ unwrap(al_res).first.ok) =>
        \A m \in AsSet(unwrap(al_res).first.val) :
           ReplacesByName(AliasRoot, m, unwrap(al_res).j, unwrap(al_res).n,
                          LevelIndex(AliasRoot, m.keys)) =>
              /\ unwrap(al_res).second.ok
              /\ m \in AsSet(unwrap(al_res).second.val)

\* C18 as the code has it: after the replacement the node of the match gets
\* a match with identical canonical keys and identical score, and matches
\* returns it unless another node scores higher for the replaced target.
C18_AliasScoresSame ==
    (pc = "al_replaced" /\ unwrap(al_res).first.ok) =>
        \A m \in AsSet(unwrap(al_res).first.val) :
           ReplacesByName(AliasRoot, m, unwrap(al_res).j, unwrap(al_res).n,
                          LevelIndex(AliasRoot, m.keys)) =>
              /\ unwrap(al_res).second.ok
              /\ NodeMatch(AliasRoot, m,
                           [al_args.target EXCEPT ![unwrap(al_res).j] = unwrap(al_res).n])
                    = Some(m)
              /\ \/ m \in AsSet(unwrap(al_res).second.val)
                 \/ \E o \in AsSet(unwrap(al_res).second.val) : o.score > m.score

\* app build and app b both match the command build below with-env
C18_Witness ==
    /\ pc = "al_replaced"
    /\ al_args.file.doc = "full"
    /\ al_args.target = <<"app", "build">>
    /\ unwrap(al_res).j = 2
    /\ unwrap(al_res).n = "b"
    /\ unwrap(al_res).first = unwrap(al_res).second
    /\ unwrap(al_res).first.ok
    /\ Len(unwrap(al_res).first.val) = 1
    /\ unwrap(al_res).first.val[1].keys = <<"app", "with-env", "build">>

-----------------------------------------------------------------------------
(* C19 *)

\* the matches DsFile::matches returned for the file match_command consulted
\* last, and the tree of that file
LastMatches ==
    IF InPipeline /\ is_some(mc_last) /\ unwrap(mc_last).res.ok
    THEN AsSet(unwrap(mc_last).res.val)
    ELSE {}

LastRoot == Documents[disk[unwrap(mc_last).path]]

\* the walk behind those matches
LastWalk ==
    walk_commands(matches_ctx(self_ds_files[unwrap(mc_last).path], args_str,
                              self_current_dir, self_git_root),
                  <<>>, matches_st)

\* the nodes for which the walk w called the visitor with the keys of m
ScoredNodes(w, m) ==
    {w.st.calls[i].command :
        i \in {k \in 1..Len(w.st.calls) : w.st.calls[k].keys = m.keys}}

\* the key loop of command_from_keys, given the keys of the match m, ends at
\* the node the walk scored, and command_from_keys returns a command
ReachesScoredNode(file, m, found, scored) ==
    /\ found.ok
    /\ is_some(found.val.command)
    /\ scored = {unwrap(found.val.command)}
    /\ NodeMatch(group_of(file), m, args_str) = Some(m)
    /\ command_from_keys(file, m.keys).ok

\* C19: for every match DsFile::matches returns, command_from_keys on the
\* keys of the match succeeds and, before the default resolution, reaches
\* exactly the node that the walk scored as the maximum-score match.
C19_StepwiseReachesMatchedNode ==
    is_some(cm_res) =>
        /\ unwrap(cm_res).ok
        /\ \A m \in LastMatches :
              ReachesScoredNode(self_ds_files[unwrap(mc_last).path], m,
                                keys_loop(LastRoot, m.keys, 1, <<>>, None),
                                ScoredNodes(LastWalk, m))

\* the keys app, with-env, build of a match lead step by step through the
\* groups app and with-env to the command the walk scored
C19_Witness ==
    \E m \in LastMatches :
       /\ m.keys = <<"app", "with-env", "build">>
       /\ keys_loop(LastRoot, m.keys, 1, <<>>, None) =
             Ok([command |-> Some(m.keys),
                 parents |-> <<<<"app">>, <<"app", "with-env">>>>])
       /\ ScoredNodes(LastWalk, m) = {m.keys}
       /\ pc = "resolved"

-----------------------------------------------------------------------------
(* C20 *)

RunRoot == Documents[rm_args.file.doc]

\* run_match came to a runner that is a command to run
RunsCommand ==
    /\ pc = "rm_done"
    /\ unwrap(rm_res).runner.ok
    /\ unwrap(rm_res).runner.val.kind = "Command"

\* the tokens of the command line after the first s
TokensFrom(s) == SubSeq(rm_args.args_str, s + 1, Len(rm_args.args_str))

\* the environments and the default environment of the resolved command
RunEnvs(c) ==
    resolve_envs(node_at(RunRoot, c.command), deref(RunRoot, c.parents))

\* environment selection takes the first of the handed tokens when it names
\* an environment, and no token otherwise
Taken(handed, envs) ==
    IF handed # <<>> /\ Head(handed) \in DOMAIN envs.merged THEN 1 ELSE 0

\* the selected environment
Selected(handed, envs) ==
    IF DOMAIN envs.merged = {} THEN [command |-> None, vars |-> None]
    ELSE IF Taken(handed, envs) = 1 THEN get_env_vars(envs.merged[Head(handed)])
    ELSE get_env_vars(envs.merged[unwrap(envs.default_env)])

\* the command string str is the optional prefix and a space, the literal
\* command, and for every remaining token, in order, a space and the token,
\* in quotes when it needs them
Appended(str, prefix, literal, rest) ==
    /\ Len(str) = Len(prefix) + 1 + 2 * Len(rest)
    /\ SubSeq(str, 1, Len(prefix)) = prefix
    /\ str[Len(prefix) + 1] = [text |-> literal, quoted |-> FALSE]
    /\ \A i \in 1..Len(rest) :
          /\ str[Len(prefix) + 2 * i] = [text |-> " ", quoted |-> FALSE]
          /\ str[Len(prefix) + 2 * i + 1].text = rest[i]
          /\ str[Len(prefix) + 2 * i + 1].quoted = (rest[i] = "two words")

PassesThrough(r, handed, envs) ==
    /\ r.runner.val.envs = Selected(handed, envs).vars
    /\ Appended(r.runner.val.command_str,
                IF is_some(Selected(handed, envs).command)
                THEN <<[text |-> unwrap(Selected(handed, envs).command), quoted |-> FALSE],
                       [text |-> " ", quoted |-> FALSE]>>
                ELSE <<>>,
                node_at(RunRoot, r.command.val.command).command,
                SubSeq(handed, 1 + Taken(handed, envs), Len(handed)))

\* C20: after a match with score s exactly the tokens from position s onward
\* are handed to environment selection, which removes at most the first of
\* them; the remaining tokens are appended to the command string in their
\* order, each escaped and after one space, behind the optional command
\* prefix and the literal command.  app with-env build prod --extra-flag
\* gives `echo app-build --extra-flag` with ENVIRONMENT=production.
C20_TokenPassThrough ==
    /\ RunsCommand =>
          PassesThrough(unwrap(rm_res), TokensFrom(unwrap(rm_res).match.val.score),
                        RunEnvs(unwrap(rm_res).command.val))
    /\ (/\ pc = "rm_done"
        /\ rm_args.file.doc = "scenario"
        /\ rm_args.args_str = <<"app", "with-env", "build", "prod", "--extra-flag">>) =>
          /\ RunsCommand
          /\ unwrap(rm_res).match.val.score = 3
          /\ unwrap(rm_res).runner.val.command_str =
                <<piece("echo app-build"), piece(" "), piece("--extra-flag")>>
          /\ unwrap(rm_res).runner.val.envs = Some([v \in {"ENVIRONMENT"} |-> "production"])

\* app b prod `two words` on the document of the tests: the match has score
\* 2, prod selects the environment with a command prefix, and the last token
\* is appended in quotes
C20_Witness ==
    /\ RunsCommand
    /\ rm_args.file.doc = "full"
    /\ rm_args.args_str = <<"app", "b", "prod", "two words">>
    /\ unwrap(rm_res).match.val.score = 2
    /\ unwrap(rm_res).match.val.keys = <<"app", "with-env", "build">>
    /\ unwrap(rm_res).runner.val.command_str =
          <<piece("COMMAND_VAR=production"), piece(" "), piece("echo app-build"),
            piece(" "), [text |-> "two words", quoted |-> TRUE]>>
    /\ unwrap(rm_res).runner.val.envs = Some([v \in {"ENVIRONMENT"} |-> "production"])

-----------------------------------------------------------------------------
(* C21 *)

\* run_match resolved the match to a group: a group without a default that
\* names a command
HelpTarget ==
    /\ pc = "rm_done"
    /\ unwrap(rm_res).command.ok
    /\ node_at(RunRoot, unwrap(rm_res).command.val.command).kind = "Group"

\* C21: building a runner succeeds with Command or with Help only, and a
\* target that resolves to a group without a default always yields Help,
\* whatever environments apply to the group and whatever tokens follow the
\* match.
C21_HelpTargetYieldsHelp ==
    /\ (pc = "rm_done" /\ unwrap(rm_res).runner.ok /\ unwrap(rm_res).command.ok) =>
          unwrap(rm_res).runner.val.kind \in {"Command", "Help"}
    /\ HelpTarget =>
          /\ unwrap(rm_res).runner.ok
          /\ unwrap(rm_res).runner.val.kind = "Help"

-----------------------------------------------------------------------------
(* C22 *)

RootsRoot == Documents[rr_args.file.doc]

\* the lengths of the prefixes of a key path, 0 for the top-level group, at
\* which a root is defined
RootDefiners(root, path) ==
    {i \in 0..Len(path) : is_some(node_at(root, SubSeq(path, 1, i)).root)}

\* the greatest member of a non-empty set of numbers
Greatest(S) == CHOOSE i \in S : \A j \in S : j <= i

\* the working directory of the node at a key path: its own root, else the
\* root of the nearest group above it, the top-level group included
NearestRoot(root, path, definers) ==
    IF definers = {} THEN Ok(None)
    ELSE root_resolved(node_at(root, SubSeq(path, 1, Greatest(definers))).root)

\* C22: the working directory of a resolved command is the node's own root
\* path if it has one, otherwise that of the nearest group above it that
\* defines one, from the parent up to the top-level group of the document,
\* otherwise none; a farther root is never used when a nearer one exists.
C22_NearestRootIsWorkingDirectory ==
    (pc = "rr_done") =>
        unwrap(rr_res).root =
            NearestRoot(RootsRoot, unwrap(rr_res).command.val.command,
                        RootDefiners(RootsRoot, unwrap(rr_res).command.val.command))

-----------------------------------------------------------------------------
(* C23 *)

\* both resolutions are over
ResolvedTwice == pc \in {"resolved", "failed"} /\ is_some(tw_first)

\* the runner of an outcome: the selected environment and the remaining
\* arguments are in it; nothing to build after an error
RunnerOf(outcome) ==
    IF is_some(outcome.command) /\ unwrap(outcome.command).ok
    THEN run_resolved(self_ds_files[unwrap(outcome.match).val.file_path], args_str,
                      unwrap(outcome.match), unwrap(outcome.command)).runner
    ELSE Err("not resolved")

\* C23: resolving the same token vector in the same directory and repository,
\* with the same documents in the same order and the same conflict policy,
\* twice yields the same outcome: the same match, the same command and
\* ancestors, the same environment and remaining arguments, or the same error.
C23_ResolvingTwiceAgrees ==
    ResolvedTwice =>
        /\ unwrap(tw_first).match = mc_res
        /\ unwrap(tw_first).command = cm_res
        /\ RunnerOf(unwrap(tw_first)) = RunnerOf([match |-> mc_res, command |-> cm_res])

\* the second resolution found both files loaded and came to the command the
\* first had come to
C23_Witness ==
    /\ ResolvedTwice
    /\ pc = "resolved"
    /\ Cardinality(DOMAIN tw_cache) = 2
    /\ unwrap(tw_first).command = cm_res
    /\ unwrap(cm_res).ok

-----------------------------------------------------------------------------
(* C24 *)

InInvocation == pc \in {"iv_call", "iv_help", "iv_help_row", "iv_run", "iv_wait",
                        "iv_returned", "iv_exited"}

\* match_command, command_from_match and Command::runner of run_match succeeded
ResolutionSucceeded ==
    /\ is_some(rm_res)
    /\ unwrap(rm_res).match.ok
    /\ unwrap(rm_res).command.ok
    /\ unwrap(rm_res).runner.ok

\* the runner in hand is that of a command: environment selection and
\* Runner::from_command succeeded for the command that is run
RunnerBuilt ==
    /\ is_some(iv_run.runner)
    /\ unwrap(iv_run.runner).kind = "Command"

\* the invocation returned an error of the resolution: of run_match up to
\* its runner, of the help rows, the picker or the runner of the picked row;
\* no runner was handed to DoSomething::run
ResolutionError ==
    /\ pc = "iv_returned"
    /\ iv_run.runner = None

\* C24: in one invocation at most one child is spawned, and only after
\* matching, key resolution, environment selection and the construction of the
\* runner succeeded; an error of the resolution is returned without a child;
\* after a child was waited for, the process exits with the child's exit code,
\* 1 for a child without one.
C24_OneSpawnAfterResolution ==
    InInvocation =>
        /\ Len(iv_children) <= 1
        /\ iv_children # <<>> =>
              /\ ResolutionSucceeded
              /\ RunnerBuilt
              /\ iv_children = <<unwrap(iv_run.runner).command_str>>
        /\ ResolutionError => iv_children = <<>>
        /\ (pc = "iv_exited" /\ iv_children # <<>>) =>
              /\ is_some(iv_run.status)
              /\ iv_run.exit = Some(Ok(IF is_some(unwrap(iv_run.status))
                                       THEN unwrap(unwrap(iv_run.status)) ELSE 1))

\* the child of a command picked among the help rows ended without a code
C24_Witness ==
    /\ pc = "iv_exited"
    /\ iv_children # <<>>
    /\ is_some(iv_run.row)
    /\ iv_run.status = Some(None)
    /\ iv_run.exit = Some(Ok(1))

-----------------------------------------------------------------------------
(* C25 *)

\* C25: a command's own environments override those of its groups: a name the
\* command defines holds, in what resolve_envs returns, the command's own
\* definition, whether or not an ancestor defines the name too.
C25_OwnEnvOverridesAncestors ==
    pc = "env_done" =>
        \A k \in EnvNames(env_args.node.envs) :
            unwrap(env_res).merged[k] = unwrap(env_args.node.envs)[k]

-----------------------------------------------------------------------------
(* C26 *)

\* the calls of the visitor in a walk of the whole document in which every
\* node is entered
WalkCalls(file) ==
    walk_commands([visitor |-> "script", file |-> file,
                   verdict |-> [p \in command_paths(group_of(file)) |-> "Continue"]],
                  <<>>, matches_st).st.calls

\* the ancestor list the walker passed to the visitor for the node at a path
WalkerParents(calls, path) ==
    calls[CHOOSE i \in 1..Len(calls) : calls[i].keys = path].parents

\* the same environments, default environment and root under two ancestor lists
SameSettings(root, node, returned, walked) ==
    /\ resolve_envs(node, deref(root, returned)) = resolve_envs(node, deref(root, walked))
    /\ resolve_root(node, deref(root, returned)) = resolve_root(node, deref(root, walked))

\* command_from_keys was given the key path of a node that is no group, so
\* that no default is resolved
NodeKeys ==
    /\ pc \in {"rr_resolved", "rr_done"}
    /\ rr_args.keys \in command_paths(RootsRoot)
    /\ node_at(RootsRoot, rr_args.keys).kind # "Group"

\* C26: the ancestor list command_from_keys returns for the key path of a node
\* is the list the walker passes to the visitor for that node, the top-level
\* group first, so that the environments, the default environment and the root
\* of the node are the same at execution as during the walk.
C26_AncestorsAsWalked ==
    NodeKeys =>
        /\ unwrap(rr_res).command.val.parents =
              WalkerParents(WalkCalls(rr_args.file), rr_args.keys)
        /\ SameSettings(RootsRoot, node_at(RootsRoot, rr_args.keys),
                        unwrap(rr_res).command.val.parents,
                        WalkerParents(WalkCalls(rr_args.file), rr_args.keys))

-----------------------------------------------------------------------------
(* C27 *)

\* C27: a node is returned as a match only if the node itself and every group
\* above it, the document's top-level group included, is in scope according to
\* its own root.
C27_WholePathInScope ==
    \A m \in TargetMatches :
        \A i \in 0..Len(m.keys) : TargetInScope(AliasRoot, SubSeq(m.keys, 1, i))

-----------------------------------------------------------------------------
(* C28 *)

\* the groups of a tree, by key path, the top-level group among them
GroupPaths(root) == {<<>>} \cup {p \in command_paths(root) : node_at(root, p).kind = "Group"}

\* walk_tree called on the group at g, with the stacks as the walker has them
\* when it comes to g, gives the stacks back as it got them
GivesStacksBack(w, g) == w.keys = g /\ w.parents = Ancestors(g)

Balanced(file, verdict, g) ==
    GivesStacksBack(walk_tree([visitor |-> "script", file |-> file, verdict |-> verdict],
                              g, g, Ancestors(g), matches_st), g)

\* the stacks at a call of the visitor: as many parents as keys, the top-level
\* group first, then the group at each proper prefix of the keys
StacksAligned(call) ==
    /\ Len(call.keys) = Len(call.parents)
    /\ call.parents[1] = <<>>
    /\ \A i \in 1..(Len(call.keys) - 1) : call.parents[i + 1] = SubSeq(call.keys, 1, i)

\* C28: when walk_tree returns, with Continue or with a Stop raised at any
\* depth, the keys and parents stacks hold what they held on entry; at every
\* call of the visitor in a walk started by walk_commands the stacks have the
\* same length, parents[0] is the top-level group and parents[i] is the group
\* at keys[0..i].
C28_StacksBalanced ==
    (pc = "wk_done") =>
        /\ unwrap(wk_res).keys = <<>>
        /\ unwrap(wk_res).parents = <<>>
        /\ \A g \in GroupPaths(WalkRoot) : Balanced(wk_args.file, wk_args.verdict, g)
        /\ \A i \in 1..Len(unwrap(wk_res).st.calls) :
              StacksAligned(unwrap(wk_res).st.calls[i])

\* a Stop raised two groups below the top-level group ended the walk, and the
\* stacks came back empty
C28_Witness ==
    /\ pc = "wk_done"
    /\ unwrap(wk_res).walk = "Stop"
    /\ Len(last(unwrap(wk_res).st.calls).keys) = 3
    /\ unwrap(wk_res).keys = <<>>
    /\ unwrap(wk_res).parents = <<>>

-----------------------------------------------------------------------------
(* C29 *)

\* no entry of a sequence occurs twice
NoRepeats(s) == \A i, j \in 1..Len(s) : s[i] = s[j] => i = j

\* C29: command_from_keys never returns a group as the resolved command while
\* that group is in the returned ancestor list, and the ancestor list never
\* holds the same group twice, also when a chain of defaults descends through
\* sub-groups.
C29_AncestorsDistinct ==
    (pc \in {"rr_resolved", "rr_done"}) =>
        /\ node_at(RootsRoot, unwrap(rr_res).command.val.command).kind = "Group" =>
              unwrap(rr_res).command.val.command \notin AsSet(unwrap(rr_res).command.val.parents)
        /\ NoRepeats(unwrap(rr_res).command.val.parents)

-----------------------------------------------------------------------------
(* C30 *)

InPicker == pc \in {"tui_loop", "tui_panicked", "tui_returned"}

\* the selection after a draw is an index of the list drawn
SelectionInList ==
    (pc = "tui_loop" /\ is_some(tui_app.selected)) =>
        unwrap(tui_app.selected) < Len(render_items(tui_app))

\* Enter returned the row of the item drawn at the selected index
EnterReturnsSelected ==
    (pc = "tui_returned" /\ tui_app.key = "Enter") =>
        /\ is_some(tui_app.selected)
        /\ unwrap(tui_app.selected) < Len(render_items(tui_app))
        /\ ~render_items(tui_app)[unwrap(tui_app.selected) + 1].header
        /\ unwrap(tui_res) = Ok(render_items(tui_app)[unwrap(tui_app.selected) + 1].row)

\* C30: for any sequence of key events the selection stays in bounds:
\* get_max_index never subtracts below zero, not with a non-empty search
\* without matches and not with an empty group list, and Enter returns the
\* row drawn at the selected index.
C30_SelectionStaysInBounds ==
    InPicker =>
        /\ ~tui_app.underflow
        /\ ~tui_app.panicked
        /\ SelectionInList
        /\ EnterReturnsSelected

====
